---- MODULE Spec2Model ----
(***************************************************************************)
(* Discord voice connection subsystem of mizchi/discord-cf:                *)
(*   VoiceConnection (src/src/voice/VoiceConnection.ts),                   *)
(*   VoiceWebSocket  (src/src/voice/VoiceWebSocket.ts),                    *)
(*   VoiceUDPSocket  (udp.ts, second half of src/src/voice/VoiceReceiver.ts)*)
(*   AudioPlayer     (src/src/voice/AudioPlayer.ts),                       *)
(*   WebSocketHandler (src/src/ws/WebSocketHandler.ts), the main gateway.  *)
(*                                                                         *)
(* One action is one macrotask of the JavaScript event loop: a caller's    *)
(* call, a timer callback or a socket event, together with every microtask *)
(* (continuation of an await on a settled promise) that it triggers.       *)
(* Handlers are written as functions from a snapshot record of the program *)
(* state to the next snapshot, composed in the order of the statements of  *)
(* the code; `out` is the list of externally visible effects of the last   *)
(* handler, in the order the code produced them.                           *)
(***************************************************************************)
EXTENDS Integers, Sequences, FiniteSets, TLC

(* ------------------------------ bounds --------------------------------- *)
\* connect() activations (each owns at most one VoiceWebSocket and one
\* VoiceUDPSocket object, numbered like the activation)
MaxConn == 2
\* sendAudioPacket calls and silence ticks in the model of one session
MaxSeq == 7
\* the same, in the specification that runs sessions one after another
MaxEarlySeq == 1
\* reconnect() calls made by the caller (retry timers are not counted)
MaxReconnectCalls == 2
\* sendAudioPacket calls from each start point in the RTP cursor model
MaxRtpSteps == 4
\* length of the mode list of a READY message in the mode selection model
MaxOffer == 3
\* connections that subscribe to the AudioPlayer
MaxSubs == 2
\* play() calls on the AudioPlayer
MaxPlays == 2
\* callbacks of the AudioPlayer's 20 ms interval in one run
MaxTicks == 6
\* gateway sockets the WebSocketHandler creates
MaxSockets == 3

(* -------------------------- program constants -------------------------- *)
maxReconnectAttempts == 5
SilenceFrames == 5
HeartbeatMissLimit == 3
SESSION_TIMEOUT == 4009
NORMAL_CLOSURE == 1000
SamplesPerFrame == 960
TwoPow16 == 2^16

\* Every value this.timestamp takes is a multiple of 960, hence of 64, and so is
\* 2^32: the model holds timestamp / 64, which keeps the 32-bit arithmetic exact
\* within the integers the model checker has.
TsUnit == 2^6
FrameStep == SamplesPerFrame \div TsUnit
\* 2^32 and 2^31 in that unit
TwoPow32 == 2^26
TwoPow31 == 2^25

\* AudioPlayer: the default of behaviors.maxMissedFrames, the number of silence
\* frames of stop(), the 20 ms of a frame and the 5000 ms after which
\* getNextFrame has no frame any more
DefaultMaxMissedFrames == 5
StopSilenceFrames == 5
FrameMs == 20
DemoDurationMs == 5000

\* reconnect(): the backoff wait is 1000 ms times reconnectAttempts, the retry
\* timer of its catch block 5000 ms
BackoffUnitMs == 1000
RetryDelayMs == 5000

OP_IDENTIFY == 0
OP_SELECT_PROTOCOL == 1
OP_READY == 2
OP_HEARTBEAT == 3
OP_SESSION_DESCRIPTION == 4
OP_SPEAKING == 5
OP_HEARTBEAT_ACK == 6
OP_RESUME == 7
OP_HELLO == 8
OP_RESUMED == 9
OP_CLIENT_DISCONNECT == 13

\* the `op` of a message of the voice server: every number of the enum, and
\* the numbers between that it does not list
Opcodes == 0..13

\* close codes after which the voice session cannot be resumed
FatalCodes == {4004, 4006, 4014, 4016}
VOICE_SERVER_CRASHED == 4015
\* the other codes the server closes the voice gateway with
CloseCodes == {NORMAL_CLOSURE, VOICE_SERVER_CRASHED}

DISCONNECTED == "disconnected"
CONNECTING == "connecting"
AUTHENTICATING == "authenticating"
READY == "ready"
RECONNECTING == "reconnecting"
DESTROYED == "destroyed"
VoiceConnectionState ==
  {DISCONNECTED, CONNECTING, AUTHENTICATING, READY, RECONNECTING, DESTROYED}

\* AudioPlayerStatus
IDLE == "idle"
BUFFERING == "buffering"
PLAYING == "playing"
PAUSED == "paused"
AUTOPAUSED == "autopaused"

\* behaviors.noSubscriber
NoSubscriber == {"pause", "play", "stop"}

\* the connections that may subscribe to the AudioPlayer
Subs == 1..MaxSubs

XSALSA20_POLY1305_LITE == "xsalsa20_poly1305_lite"
XSALSA20_POLY1305_SUFFIX == "xsalsa20_poly1305_suffix"
XSALSA20_POLY1305 == "xsalsa20_poly1305"

\* mode lists a READY message may offer
ModeOffers ==
  { <<XSALSA20_POLY1305_LITE, XSALSA20_POLY1305>>,
    <<XSALSA20_POLY1305_SUFFIX, XSALSA20_POLY1305>> }

\* mode names a voice server may offer that EncryptionMode does not list
AEAD_AES256_GCM_RTPSIZE == "aead_aes256_gcm_rtpsize"
AEAD_XCHACHA20_POLY1305_RTPSIZE == "aead_xchacha20_poly1305_rtpsize"

OfferedModes ==
  {XSALSA20_POLY1305_LITE, XSALSA20_POLY1305_SUFFIX, XSALSA20_POLY1305,
   AEAD_AES256_GCM_RTPSIZE, AEAD_XCHACHA20_POLY1305_RTPSIZE}

\* every mode list of a READY message up to the bound, the empty one included
Offers == UNION { [1..n -> OfferedModes] : n \in 0..MaxOffer }

\* payloads of sendAudioPacket: a caller's Opus frame, or createSilenceFrame()
OPUS == "opus"
SILENCE == "F8FFFE"

Conns == 1..MaxConn

\* the WebSocket objects of the WebSocketHandler, in the order it creates them
Sockets == 1..MaxSockets

\* the `op` of the payloads handleGatewayMessage has a case for
GatewayOps == {"Hello", "HeartbeatAck", "Dispatch", "Reconnect", "InvalidSession"}

\* what the VOICE_SERVER_UPDATE of a join carries: endpoint 0 = null (no voice
\* server allocated) or 1 = the voice server, with token 1
Endpoints == {0, 1}

\* the token, endpoint and session id in the events of other guilds and users
ForeignValue == 2

\* the session ids of the user's VOICE_STATE_UPDATE events: that of the join,
\* and the one a later event brings
SessionIds == {1, 2}

\* <<token, endpoint>> of a VOICE_SERVER_UPDATE that moves the session: another
\* token, another voice server, or both
Migrations == {<<2, 1>>, <<1, 2>>, <<2, 2>>}

(* ------------------------------- state --------------------------------- *)
VARIABLES
  gateway,               \* constructor argument: the gateway object has send()
  isNodeEnvironment,     \* set by the constructor: process.versions.node is defined
  state,                 \* VoiceConnection.state
  voiceWebSocket,        \* VoiceConnection.voiceWebSocket: 0 = undefined, else object id
  voiceUDP,              \* VoiceConnection.voiceUDP: 0 = undefined, else object id
  sessionId,             \* VoiceConnection.sessionId, 0 = undefined
  token,                 \* VoiceConnection.token, 0 = undefined
  endpoint,              \* VoiceConnection.endpoint, 0 = undefined / null
  speaking,              \* VoiceConnection.speaking
  reconnectAttempts,     \* VoiceConnection.reconnectAttempts
  reconnectTimeout,      \* [held: the 5 s retry timer in this.reconnectTimeout is pending,
                         \*  orphans: pending retry timers whose handle was overwritten]
  silenceFrameInterval,  \* [on: interval set, count: closure variable `count`]
  tail,                  \* history: [sent, missed] ticks of the last silence timer that
                         \*   emitted a frame / emitted none
  destroyCalled,         \* history: destroy() has been called
  budget,                \* sendAudioPacket calls and silence ticks the run may still make
  backoff,               \* reconnect() activations suspended in their backoff wait
  reconnectCalls,        \* reconnect() calls made by the caller so far
  conn,                  \* connect() activations
  ws,                    \* VoiceWebSocket objects
  udp,                   \* VoiceUDPSocket objects
  player,                \* the AudioPlayer: its state, behaviors, connections, timers
  handler,               \* the WebSocketHandler: its socket, the sockets it made, timers
  out                    \* effects of the last handler, in program order

vars == << gateway, isNodeEnvironment, state, voiceWebSocket, voiceUDP, sessionId, token, endpoint,
           speaking, reconnectAttempts, reconnectTimeout, silenceFrameInterval,
           tail, destroyCalled, budget, backoff, reconnectCalls, conn, ws, udp,
           player, handler, out >>

(* --------------------------- integer helpers --------------------------- *)
\* JavaScript ToInt32: the result of the bitwise operators is a signed 32-bit integer
\* (on timestamps, in units of 64)
ToInt32(x) ==
  LET m == x % TwoPow32 IN IF m >= TwoPow31 THEN m - TwoPow32 ELSE m

\* x & 0xFFFF, for the non-negative x below 2^31 it is applied to
And0xFFFF(x) == x % TwoPow16

\* x & 0xFFFFFFFF, on timestamps (in units of 64)
And0xFFFFFFFF(x) == ToInt32(x)

Range(s) == { s[k] : k \in 1..Len(s) }

(* ------------------------------ effects -------------------------------- *)
\* e: kind, u: object id (0 = the supervisor), a, b: numbers, p: text
\* st: the supervisor state at the moment of the effect, sp: a SPEAKING with
\* speaking = 1 has gone out on the supervisor's voice gateway by that moment
\* (both filled in by Emit), t: the bytes of a packet after its payload, as the
\* numbers they encode
Eff(e, u, a, b, p) ==
  [e |-> e, u |-> u, a |-> a, b |-> b, p |-> p, st |-> "", sp |-> FALSE, t |-> <<>>]

Emit(S, eff) ==
  [S EXCEPT !.out = Append(@, [eff EXCEPT
     !.st = S.state,
     !.sp = IF S.voiceWebSocket = 0 THEN FALSE ELSE S.ws[S.voiceWebSocket].spoke])]

\* sequencing: the snapshot S, computed once, handed to the rest of the handler
Then(S, Rest(_)) == Rest(S)

\* an exception travelling up the call stack of the current handler
Raise(S, msg) == [S EXCEPT !.exc = msg]

\* an exception or promise rejection that reaches the caller of the operation
Surface(S, msg) == Emit(S, Eff("error", 0, 0, 0, msg))

\* an exception thrown out of a timer callback or socket event handler
Uncaught(S, msg) == Emit(S, Eff("uncaught", 0, 0, 0, msg))

(* -------------------------- object templates --------------------------- *)
NoConn ==
  [pc |-> "idle", recvServer |-> FALSE, recvState |-> FALSE, timer |-> FALSE,
   listeners |-> FALSE, viaReconnect |-> FALSE]

NoWs ==
  [sock |-> "none", ref |-> FALSE, heartbeatInterval |-> FALSE,
   lastHeartbeatAck |-> TRUE, heartbeatMissed |-> 0, ready |-> FALSE,
   connectionTimeout |-> FALSE, helloL |-> FALSE, readyL |-> FALSE,
   sdL |-> FALSE, infoOk |-> FALSE, modes |-> <<>>,
   spoke |-> FALSE, said |-> FALSE, unacked |-> 0, acked |-> TRUE, code |-> 0,
   sessionId |-> 0]

NoUdp ==
  [made |-> FALSE, closed |-> FALSE, secretKey |-> FALSE, encryptionMode |-> "",
   sequence |-> 0, timestamp |-> 0, nonce |-> 0, emitted |-> 0]

\* new AudioPlayer(behaviors): timeouts counts the pending 100 ms timers of
\* play(), intervals the running 20 ms timers, intervalId tells whether
\* this.intervalId holds one of them; plays counts the play() calls
NewAudioPlayer(noSubscriber, maxMissedFrames) ==
  [status |-> IDLE, resource |-> FALSE, missedFrames |-> 0, playbackDuration |-> 0,
   connections |-> {}, intervalId |-> FALSE, intervals |-> 0, timeouts |-> 0,
   noSubscriber |-> noSubscriber, maxMissedFrames |-> maxMissedFrames, plays |-> 0]

\* a WebSocket of the WebSocketHandler before `new WebSocket(gatewayUrl)`;
\* hello: the server has sent its HELLO on it
NoSocket == [readyState |-> "none", hello |-> FALSE]

\* new WebSocketHandler(state, env): ws is this.ws (0 = undefined), heartbeats
\* counts the pending timers of sendHeartbeat, waits the reconnect()
\* activations in their 1000 ms wait, session tells whether storage holds
\* 'session'
NewWebSocketHandler ==
  [ws |-> 0, socks |-> [s \in Sockets |-> NoSocket], lastHeartbeatAck |-> TRUE,
   heartbeats |-> 0, waits |-> 0, session |-> FALSE]

(* --------------------------- snapshot record --------------------------- *)
Cur ==
  [gateway |-> gateway, isNodeEnvironment |-> isNodeEnvironment, tail |-> tail, destroyCalled |-> destroyCalled,
   state |-> state, voiceWebSocket |-> voiceWebSocket, voiceUDP |-> voiceUDP,
   sessionId |-> sessionId, token |-> token, endpoint |-> endpoint,
   speaking |-> speaking, reconnectAttempts |-> reconnectAttempts,
   reconnectTimeout |-> reconnectTimeout,
   silenceFrameInterval |-> silenceFrameInterval, backoff |-> backoff,
   conn |-> conn, ws |-> ws, udp |-> udp, player |-> player, handler |-> handler,
   out |-> <<>>, exc |-> "", ret |-> <<>>]

\* Garbage collection.  Nothing can observe or change any more: the fields of a
\* VoiceWebSocket whose socket is closed (onclose has cleared its timers) and
\* which the supervisor no longer references; the connection info of a READY
\* message once the handler that received it has returned (connectUDP reads it
\* in that handler or never); the history of a heartbeat timer that has
\* stopped; the cursor and key of a VoiceUDPSocket the supervisor no longer
\* references, and what was last said on a VoiceWebSocket it no longer
\* references; the locals of a connect() activation that has settled.  The model forgets them, and keeps
\* what tells a closed socket from a socket that was never closed.
Collect(S) ==
  [S EXCEPT
     !.ws = [w \in Conns |->
               IF S.ws[w].sock = "closed" /\ S.voiceWebSocket # w
                 THEN [NoWs EXCEPT !.sock = "closed"]
                 ELSE [S.ws[w] EXCEPT
                         !.infoOk = FALSE, !.modes = <<>>,
                         !.said = IF S.voiceWebSocket = w THEN @ ELSE FALSE,
                         !.unacked = IF S.ws[w].heartbeatInterval THEN @ ELSE 0,
                         !.acked = IF S.ws[w].heartbeatInterval THEN @ ELSE TRUE]],
     !.udp = [u \in Conns |->
               IF S.udp[u].made /\ S.voiceUDP # u
                 THEN [NoUdp EXCEPT !.made = TRUE, !.closed = S.udp[u].closed]
                 ELSE S.udp[u]],
     !.conn = [i \in Conns |->
               IF S.conn[i].pc = "done"
                 THEN [NoConn EXCEPT !.pc = "done", !.listeners = S.conn[i].listeners]
                 ELSE S.conn[i]]]

\* the handler ran to T: install it as the next state
Becomes(T) ==
  \E S \in {Collect(T)} :
  /\ state' = S.state
  /\ voiceWebSocket' = S.voiceWebSocket
  /\ voiceUDP' = S.voiceUDP
  /\ sessionId' = S.sessionId
  /\ token' = S.token
  /\ endpoint' = S.endpoint
  /\ speaking' = S.speaking
  /\ reconnectAttempts' = S.reconnectAttempts
  /\ reconnectTimeout' = S.reconnectTimeout
  /\ silenceFrameInterval' = S.silenceFrameInterval
  /\ backoff' = S.backoff
  /\ conn' = S.conn
  /\ ws' = S.ws
  /\ udp' = S.udp
  /\ player' = S.player
  /\ handler' = S.handler
  /\ out' = S.out
  /\ gateway' = S.gateway
  /\ isNodeEnvironment' = S.isNodeEnvironment
  /\ tail' = S.tail
  /\ destroyCalled' = S.destroyCalled

(* ---------------------------- VoiceUDPSocket --------------------------- *)
\* createRTPHeader, up to the write of the timestamp: the sequence number is
\* written and advanced first, then writeUInt32BE(timestamp) checks its range
createRTPHeader(S, u) ==
  LET U == S.udp[u]
      S1 == [S EXCEPT !.udp[u].sequence = And0xFFFF(U.sequence + 1)]
  IN IF U.timestamp < 0 \/ U.timestamp >= TwoPow32
       THEN Raise(S1, "ERR_OUT_OF_RANGE")
       ELSE S1

\* the buffer encryptPacket returns, `Buffer.concat([header, opusPacket])`: the
\* parts of the packet in order, a part being its name and the numbers in it
Packet(U, opusPacket) ==
  << <<"header", U.sequence, U.timestamp>>, <<"payload", opusPacket>> >>

\* encryptPacket: throws without a key, builds the header, then switches on the
\* mode; the lite case writes this.nonce++ into nonceBuffer, a local that goes
\* into no buffer; the result (in S.ret) is header and payload in either case
encryptPacket(S, u, opusPacket) ==
  LET U == S.udp[u] IN
  IF ~U.secretKey THEN Raise(S, "Secret key not set")
  ELSE Then(createRTPHeader(S, u), LAMBDA S1 :
       IF S1.exc # "" THEN S1
       ELSE IF U.encryptionMode = XSALSA20_POLY1305_LITE
              THEN [S1 EXCEPT !.udp[u].nonce = U.nonce + 1,
                              !.ret = Packet(U, opusPacket)]
            ELSE IF U.encryptionMode = XSALSA20_POLY1305
              THEN [S1 EXCEPT !.ret = Packet(U, opusPacket)]
            ELSE Raise(S1, "Unsupported encryption mode"))

\* the bytes of a packet after its payload
Trailer(packet) == [k \in 1..(Len(packet) - 2) |-> packet[k + 2][2]]

\* VoiceUDPSocket.sendAudioPacket: the packet leaves where socket.send stands in
\* the code, after encryptPacket returned; then the timestamp advances
UdpSendAudioPacket(S, u, payload) ==
  LET U == S.udp[u] IN
  IF U.closed THEN S
  ELSE Then(encryptPacket(S, u, payload), LAMBDA S1 :
       IF S1.exc # "" THEN S1
       ELSE [Emit(S1, [Eff("audio", u, S1.ret[1][2], S1.ret[1][3], S1.ret[2][2])
                         EXCEPT !.t = Trailer(S1.ret)])
               EXCEPT !.udp[u].timestamp = And0xFFFFFFFF(U.timestamp + FrameStep),
                      !.udp[u].emitted = U.emitted + 1,
                      !.ret = <<>>])

setSecretKey(S, u) == [S EXCEPT !.udp[u].secretKey = TRUE]

UdpClose(S, u) == Emit([S EXCEPT !.udp[u].closed = TRUE], Eff("udp.close", u, 0, 0, ""))

\* VoiceUDPSocket.connect: throws in a browser or Worker, and throws in Node.js
\* as well (the dgram socket is not written yet)
UdpConnect(S, u, window) ==
  IF window THEN Raise(S, "UDP sockets are not supported in browser/Workers environment")
  ELSE Raise(S, "UDP socket implementation requires Node.js runtime")

\* VoiceUDPSocket.performIPDiscovery: the promise is rejected in its executor;
\* the 5 s timer then rejects a promise that is already settled
performIPDiscovery(S, u) == Raise(S, "IP discovery requires Node.js runtime")

(* ---------------------------- VoiceWebSocket --------------------------- *)
\* VoiceWebSocket.cleanup
VwsCleanup(S, w) ==
  [S EXCEPT !.ws[w].heartbeatInterval = FALSE,
            !.ws[w].connectionTimeout = FALSE,
            !.ws[w].ready = FALSE,
            !.ws[w].lastHeartbeatAck = TRUE,
            !.ws[w].heartbeatMissed = 0]

\* VoiceWebSocket.close(code): the socket is closed only when it is OPEN; the
\* reference is dropped in any case
VwsClose(S, w, code) ==
  Then(VwsCleanup(S, w), LAMBDA S1 :
  IF ~S1.ws[w].ref THEN S1
  ELSE [(IF S1.ws[w].sock = "open"
           THEN Emit([S1 EXCEPT !.ws[w].sock = "closing", !.ws[w].code = code],
                     Eff("socket.close", w, code, 0, ""))
           ELSE S1)
          EXCEPT !.ws[w].ref = FALSE])

\* VoiceWebSocket.send: dropped unless this.ws is an OPEN socket
VwsCanSend(S, w) == S.ws[w].ref /\ S.ws[w].sock = "open"

VwsSend(S, w, op, d) ==
  IF VwsCanSend(S, w) THEN Emit(S, Eff("ws.send", w, op, d, "")) ELSE S

\* VoiceWebSocket.isReady
isReady(S, w) == S.ws[w].ready /\ S.ws[w].ref /\ S.ws[w].sock = "open"

\* VoiceWebSocket.selectProtocol
selectProtocol(S, w) ==
  IF ~S.ws[w].ready THEN Raise(S, "Voice WebSocket not ready")
  ELSE VwsSend(S, w, OP_SELECT_PROTOCOL, 0)

\* VoiceWebSocket.setSpeaking; spoke and said are history: a SPEAKING with
\* speaking = 1 has gone out on the socket, and the value of the last SPEAKING
\* that went out on it
setSpeaking(S, w, flag) ==
  LET S1 == VwsSend(S, w, OP_SPEAKING, IF flag THEN 1 ELSE 0) IN
  IF VwsCanSend(S, w)
    THEN [S1 EXCEPT !.ws[w].spoke = @ \/ flag, !.ws[w].said = flag]
    ELSE S1

(* --------------------------- VoiceConnection --------------------------- *)
\* VoiceConnection.setState
setState(S, st) ==
  IF S.state # st
    THEN Emit([S EXCEPT !.state = st], Eff("stateChange", 0, 0, 0, st))
    ELSE S

\* VoiceConnection.stopSilenceFrames
stopSilenceFrames(S) ==
  IF S.silenceFrameInterval.on
    THEN [S EXCEPT !.silenceFrameInterval = [on |-> FALSE, count |-> 0]]
    ELSE S

\* VoiceConnection.startSilenceFrames
startSilenceFrames(S) ==
  IF S.silenceFrameInterval.on THEN S
  ELSE [S EXCEPT !.silenceFrameInterval = [on |-> TRUE, count |-> 0],
                 !.tail = [sent |-> 0, missed |-> 0]]

\* VoiceConnection.startSpeaking
startSpeaking(S) ==
  IF ~S.speaking /\ S.voiceWebSocket # 0 /\ isReady(S, S.voiceWebSocket)
    THEN stopSilenceFrames(
           setSpeaking([S EXCEPT !.speaking = TRUE], S.voiceWebSocket, TRUE))
    ELSE S

\* VoiceConnection.stopSpeaking
stopSpeaking(S) ==
  IF S.speaking /\ S.voiceWebSocket # 0 /\ isReady(S, S.voiceWebSocket)
    THEN startSilenceFrames(
           setSpeaking([S EXCEPT !.speaking = FALSE], S.voiceWebSocket, FALSE))
    ELSE S

\* VoiceConnection.sendAudioPacket
sendAudioPacket(S, payload) ==
  IF S.state # READY THEN S
  ELSE Then(IF ~S.speaking THEN startSpeaking(S) ELSE S, LAMBDA S1 :
       IF S1.voiceUDP # 0 THEN UdpSendAudioPacket(S1, S1.voiceUDP, payload) ELSE S1)

\* the 'cleanup' listeners registered by waitForVoiceInfo: each takes the two
\* gateway listeners of its activation off
OffListeners(S) ==
  [S EXCEPT !.conn = [i \in Conns |-> [S.conn[i] EXCEPT !.listeners = FALSE]]]

\* VoiceConnection.cleanup
cleanup(S) ==
  Then([stopSilenceFrames(S) EXCEPT !.reconnectTimeout.held = FALSE], LAMBDA S2 :
  Then(IF S2.voiceWebSocket # 0
         THEN [VwsClose(Emit(S2, Eff("VoiceWebSocket.close", S2.voiceWebSocket, 0, 0, "")),
                        S2.voiceWebSocket, NORMAL_CLOSURE)
                 EXCEPT !.voiceWebSocket = 0]
         ELSE S2, LAMBDA S3 :
  Then(IF S3.voiceUDP # 0
         THEN [UdpClose(S3, S3.voiceUDP) EXCEPT !.voiceUDP = 0]
         ELSE S3, LAMBDA S4 :
  OffListeners(Emit(S4, Eff("cleanup", 0, 0, 0, ""))))))

\* VoiceConnection.destroy
destroy(S) == [setState(cleanup(S), DESTROYED) EXCEPT !.destroyCalled = TRUE]

\* disconnect() as it would be with the leave sent after the teardown
disconnect_TeardownFirst(S) ==
  IF S.state = DESTROYED THEN S
  ELSE setState(Then(cleanup(S), LAMBDA S1 :
                  IF S1.gateway THEN Emit(S1, Eff("op4", 0, 0, 0, "null")) ELSE S1),
                DISCONNECTED)

\* VoiceConnection.disconnect
disconnect(S) ==
  IF S.state = DESTROYED THEN S
  ELSE setState(cleanup(IF S.gateway THEN Emit(S, Eff("op4", 0, 0, 0, "null")) ELSE S),
                DISCONNECTED)

(* ----------------------- connect() and its awaits ---------------------- *)
\* setTimeout(callback, ms) of one of reconnect()'s two timers
SetTimeout(S, timer, ms) == Emit(S, Eff("setTimeout", 0, ms, 0, timer))

\* the retry timer of reconnect()'s catch block; a handle that is still
\* pending is overwritten, its timer stays armed
ScheduleRetry(S) ==
  [SetTimeout(S, "retry", RetryDelayMs) EXCEPT !.reconnectTimeout =
     [held |-> TRUE, orphans |-> @.orphans + (IF @.held THEN 1 ELSE 0)]]

\* connect() rejects: to the caller, or into the catch block of reconnect()
Rejected(S, via, msg) == IF via THEN ScheduleRetry(S) ELSE Surface(S, msg)

\* the catch block of connect(), entered from activation i
ConnectFail(S, i, msg) ==
  Rejected([setState(S, DISCONNECTED) EXCEPT !.conn[i].pc = "done"],
           S.conn[i].viaReconnect, msg)

\* selectEncryptionMode as it would be with suffix preferred to lite
selectEncryptionMode_SuffixFirst(available) ==
  LET offered == Range(available) IN
  IF XSALSA20_POLY1305_SUFFIX \in offered THEN XSALSA20_POLY1305_SUFFIX
  ELSE IF XSALSA20_POLY1305_LITE \in offered THEN XSALSA20_POLY1305_LITE
  ELSE IF XSALSA20_POLY1305 \in offered THEN XSALSA20_POLY1305
  ELSE IF Len(available) > 0 THEN available[1] ELSE XSALSA20_POLY1305

\* VoiceConnection.selectEncryptionMode
selectEncryptionMode(available) ==
  LET offered == Range(available) IN
  IF XSALSA20_POLY1305_LITE \in offered THEN XSALSA20_POLY1305_LITE
  ELSE IF XSALSA20_POLY1305_SUFFIX \in offered THEN XSALSA20_POLY1305_SUFFIX
  ELSE IF XSALSA20_POLY1305 \in offered THEN XSALSA20_POLY1305
  ELSE IF Len(available) > 0 THEN available[1] ELSE XSALSA20_POLY1305

\* connectVoiceWebSocket up to `await this.voiceWebSocket.connect()`, with the
\* synchronous part of VoiceWebSocket.connect (timeout, socket, listeners)
connectVoiceWebSocket(S, i) ==
  IF S.endpoint = 0 \/ S.token = 0 \/ S.sessionId = 0
    THEN ConnectFail(S, i, "Missing voice connection info")
    ELSE LET S1 == setState(S, AUTHENTICATING)
             S2 == [S1 EXCEPT !.voiceWebSocket = i,
                              !.ws[i] = [NoWs EXCEPT !.sock = "connecting", !.ref = TRUE,
                                                     !.sessionId = S.sessionId,
                                                     !.connectionTimeout = TRUE,
                                                     !.helloL = TRUE, !.readyL = TRUE,
                                                     !.sdL = TRUE],
                              !.conn[i].pc = "waitWS"]
         IN Emit(S2, Eff("ws.open", i, 0, 0, ""))

\* the end of connect(): READY, and the reset of reconnect() after its await
connectDone(S, i) ==
  LET S1 == Emit(setState(S, READY), Eff("ready", 0, 0, 0, "")) IN
  [S1 EXCEPT !.conn[i].pc = "done",
             !.reconnectAttempts = IF S.conn[i].viaReconnect THEN 0 ELSE @]

\* the try block of connectUDP: VoiceUDPSocket.connect, performIPDiscovery,
\* selectProtocol, each reached only if the one before did not throw
connectUDP_try(S, i, w) ==
  Then(UdpConnect(S, i, FALSE), LAMBDA A :
  IF A.exc # "" THEN A
  ELSE Then(performIPDiscovery(A, i), LAMBDA B :
       IF B.exc # "" THEN B ELSE selectProtocol(B, w)))

\* connect() from the resolution of voiceWebSocket.connect() to its end:
\* connectUDP, whose catch block swallows whatever the try block threw
\* ("Continue without UDP"), then READY
connectUDP(S, i) ==
  LET w == S.voiceWebSocket IN
  IF ~S.isNodeEnvironment THEN connectDone(S, i)
  ELSE IF w = 0
    THEN ConnectFail(S, i, "TypeError: voiceWebSocket is undefined")
  ELSE IF ~S.ws[w].infoOk
    THEN ConnectFail(S, i, "Missing UDP connection info")
  ELSE Then([S EXCEPT !.voiceUDP = i,
                      !.udp[i] = [NoUdp EXCEPT !.made = TRUE,
                         !.encryptionMode = selectEncryptionMode(S.ws[w].modes)]], LAMBDA S1 :
       Then(connectUDP_try(S1, i, w), LAMBDA S2 :
       IF S2.exc # ""
         THEN connectDone(Emit([S2 EXCEPT !.exc = ""],
                               Eff("console.error", i, 0, 0, "UDP connection failed")), i)
         ELSE [S2 EXCEPT !.conn[i].pc = "waitSD"]))

\* connect() up to `await this.waitForVoiceInfo()`; i is the new activation
connect(S, via, i) ==
  IF S.state # DISCONNECTED THEN Rejected(S, via, "Cannot connect in state")
  ELSE LET S1 == setState(S, CONNECTING) IN
       IF ~S.gateway
         THEN Rejected(setState(S1, DISCONNECTED), via, "Gateway not available")
         ELSE [Emit(S1, Eff("op4", 0, 0, 0, "join"))
                 EXCEPT !.conn[i] = [NoConn EXCEPT !.pc = "waitInfo", !.timer = TRUE,
                                                   !.listeners = TRUE,
                                                   !.viaReconnect = via]]

\* checkComplete as it would be if one of the two events were enough
checkComplete_Either(C) == C.recvServer \/ C.recvState

\* checkComplete of activation i
checkComplete(C) == C.recvServer /\ C.recvState

\* the activations whose waitForVoiceInfo promise resolves, resumed in order
RECURSIVE ResumeFrom(_, _, _)
ResumeFrom(S, k, done) ==
  IF k > MaxConn THEN S
  ELSE IF k \in done THEN ResumeFrom(connectVoiceWebSocket(S, k), k + 1, done)
  ELSE ResumeFrom(S, k + 1, done)

\* gateway.emit('VOICE_SERVER_UPDATE', data): serverUpdateHandler of every
\* activation that is still registered, then the continuations
onVoiceServerUpdate(S, guildMatch, tok, ep) ==
  LET hit == { i \in Conns : S.conn[i].listeners /\ guildMatch }
      seen == [i \in Conns |-> IF i \in hit THEN [S.conn[i] EXCEPT !.recvServer = TRUE]
                                             ELSE S.conn[i]]
      done == { i \in hit : checkComplete(seen[i]) }
      S1 == IF hit = {} THEN S ELSE [S EXCEPT !.token = tok, !.endpoint = ep]
      S2 == [S1 EXCEPT !.conn = [i \in Conns |->
               IF i \in done THEN [seen[i] EXCEPT !.timer = FALSE] ELSE seen[i]]]
  IN ResumeFrom(S2, 1, { i \in done : S.conn[i].pc = "waitInfo" })

\* stateUpdateHandler as it would be without the comparison of user_id
onVoiceStateUpdate_AnyUser(S, guildMatch, userMatch, sid) ==
  LET hit == { i \in Conns : S.conn[i].listeners /\ guildMatch }
      seen == [i \in Conns |-> IF i \in hit THEN [S.conn[i] EXCEPT !.recvState = TRUE]
                                             ELSE S.conn[i]]
      done == { i \in hit : checkComplete(seen[i]) }
      S1 == IF hit = {} THEN S ELSE [S EXCEPT !.sessionId = sid]
      S2 == [S1 EXCEPT !.conn = [i \in Conns |->
               IF i \in done THEN [seen[i] EXCEPT !.timer = FALSE] ELSE seen[i]]]
  IN ResumeFrom(S2, 1, { i \in done : S.conn[i].pc = "waitInfo" })

\* gateway.emit('VOICE_STATE_UPDATE', data): stateUpdateHandler likewise
onVoiceStateUpdate(S, guildMatch, userMatch, sid) ==
  LET hit == { i \in Conns : S.conn[i].listeners /\ guildMatch /\ userMatch }
      seen == [i \in Conns |-> IF i \in hit THEN [S.conn[i] EXCEPT !.recvState = TRUE]
                                             ELSE S.conn[i]]
      done == { i \in hit : checkComplete(seen[i]) }
      S1 == IF hit = {} THEN S ELSE [S EXCEPT !.sessionId = sid]
      S2 == [S1 EXCEPT !.conn = [i \in Conns |->
               IF i \in done THEN [seen[i] EXCEPT !.timer = FALSE] ELSE seen[i]]]
  IN ResumeFrom(S2, 1, { i \in done : S.conn[i].pc = "waitInfo" })

\* reconnect() as it would be with `reconnectAttempts > maxReconnectAttempts`
reconnect_OneMore(S, fromTimer) ==
  IF S.state = DESTROYED
    THEN IF fromTimer THEN Emit(S, Eff("console.error", 0, 0, 0, "Connection is destroyed"))
                      ELSE Surface(S, "Connection is destroyed")
  ELSE IF S.reconnectAttempts > maxReconnectAttempts
    THEN IF fromTimer
           THEN Emit(destroy(S), Eff("console.error", 0, 0, 0, "Max reconnection attempts reached"))
           ELSE Surface(destroy(S), "Max reconnection attempts reached")
  ELSE LET S1 == setState(S, RECONNECTING)
           S2 == [S1 EXCEPT !.reconnectAttempts = @ + 1]
       IN [SetTimeout(cleanup(S2), "backoff", BackoffUnitMs * S2.reconnectAttempts)
             EXCEPT !.backoff = @ + 1]

\* VoiceConnection.reconnect up to its backoff wait
reconnect(S, fromTimer) ==
  IF S.state = DESTROYED
    THEN IF fromTimer THEN Emit(S, Eff("console.error", 0, 0, 0, "Connection is destroyed"))
                      ELSE Surface(S, "Connection is destroyed")
  ELSE IF S.reconnectAttempts >= maxReconnectAttempts
    THEN IF fromTimer
           THEN Emit(destroy(S), Eff("console.error", 0, 0, 0, "Max reconnection attempts reached"))
           ELSE Surface(destroy(S), "Max reconnection attempts reached")
  ELSE LET S1 == setState(S, RECONNECTING)
           S2 == [S1 EXCEPT !.reconnectAttempts = @ + 1]
       IN [SetTimeout(cleanup(S2), "backoff", BackoffUnitMs * S2.reconnectAttempts)
             EXCEPT !.backoff = @ + 1]

(* ------------------- VoiceWebSocket timers and events ------------------ *)
\* the 'hello' listener of VoiceWebSocket.connect: startHeartbeat, identify
onHello(S, w) ==
  IF ~S.ws[w].helloL THEN S
  ELSE VwsSend([S EXCEPT !.ws[w].helloL = FALSE,
                         !.ws[w].heartbeatInterval = TRUE,
                         !.ws[w].unacked = 0,
                         !.ws[w].acked = TRUE],
               w, OP_IDENTIFY, 0)

\* the 'ready' listener of VoiceWebSocket.connect
readyListener(S, w, ok, modes) ==
  [S EXCEPT !.ws[w].readyL = FALSE,
            !.ws[w].connectionTimeout = FALSE,
            !.ws[w].ready = TRUE,
            !.ws[w].infoOk = ok,
            !.ws[w].modes = modes]

\* the 'ready' listener of VoiceWebSocket.connect, and what resolve() resumes
onReady(S, w, ok, modes) ==
  IF ~S.ws[w].readyL THEN S
  ELSE Then(readyListener(S, w, ok, modes), LAMBDA S1 :
       IF S1.conn[w].pc = "waitWS" THEN connectUDP(S1, w) ELSE S1)

\* handleSessionDescription, and the 'session_description' listener of
\* connectVoiceWebSocket: the key goes to whatever this.voiceUDP is now
onSessionDescription(S, w) ==
  Then(IF ~S.ws[w].sdL THEN S
       ELSE Then([S EXCEPT !.ws[w].sdL = FALSE], LAMBDA S1 :
            IF S1.voiceUDP # 0 THEN setSecretKey(S1, S1.voiceUDP) ELSE S1), LAMBDA S2 :
  IF S2.conn[w].pc = "waitSD" THEN connectDone(S2, w) ELSE S2)

\* HEARTBEAT_ACK as it would be without the reset of heartbeatMissed
onHeartbeatAck_NoReset(S, w) ==
  [S EXCEPT !.ws[w].lastHeartbeatAck = TRUE,
            !.ws[w].acked = TRUE]

\* handleMessage, case HEARTBEAT_ACK
onHeartbeatAck(S, w) ==
  [S EXCEPT !.ws[w].lastHeartbeatAck = TRUE,
            !.ws[w].heartbeatMissed = 0,
            !.ws[w].acked = TRUE]

\* the interval callback of startHeartbeat.  unacked / acked are history
\* variables kept apart from the code's counters: unacked counts the ticks in
\* a row that found no HEARTBEAT_ACK since the tick before
heartbeatTick(S, w) ==
  LET W == S.ws[w]
      n == IF W.acked THEN 0 ELSE W.unacked + 1
      S0 == Emit([S EXCEPT !.ws[w].unacked = n, !.ws[w].acked = FALSE],
                 Eff("tick", w, n, 0, ""))
      missed == IF W.lastHeartbeatAck THEN W.heartbeatMissed ELSE W.heartbeatMissed + 1
      S1 == [S0 EXCEPT !.ws[w].heartbeatMissed = missed]
  IN IF ~W.lastHeartbeatAck /\ missed >= HeartbeatMissLimit
       THEN VwsClose(Emit(S1, Eff("heartbeat.timeout", w, n, 0, "")), w, SESSION_TIMEOUT)
       ELSE VwsSend([S1 EXCEPT !.ws[w].lastHeartbeatAck = FALSE], w, OP_HEARTBEAT, 0)

\* the connection timeout of VoiceWebSocket.connect: reject, then close(4009);
\* the rejection resumes connect() in its catch block
onConnectionTimeout(S, w) ==
  Then(VwsClose(Emit([S EXCEPT !.ws[w].connectionTimeout = FALSE],
                     Eff("connect.timeout", w, 0, 0, "")),
                w, SESSION_TIMEOUT), LAMBDA S1 :
  IF S1.conn[w].pc = "waitWS"
    THEN ConnectFail(S1, w, "Voice WebSocket connection timeout")
    ELSE S1)

\* onclose: cleanup, emit('close', code) (the supervisor does not listen).  A
\* socket the client closed reports the client's code, else the server's.
onClose(S, w, code) ==
  LET c == IF S.ws[w].sock = "closing" THEN S.ws[w].code ELSE code IN
  Emit(VwsCleanup([S EXCEPT !.ws[w].sock = "closed", !.ws[w].code = 0], w),
       Eff("close", w, c, 0, ""))

\* VoiceWebSocket.resume (no caller in the repository)
resume(S, w) == VwsSend(S, w, OP_RESUME, 0)

\* handleMessage, case RESUMED: emit('resumed') (nobody listens)
onResumed(S, w) == Emit(S, Eff("resumed", w, 0, 0, ""))

\* handleMessage as it would be with HEARTBEAT_ACK = 7 in the enum
handleMessage_Ack7(S, w, op, ok, modes) ==
  LET S0 == Emit(S, Eff("message", w, op, 0, "")) IN
  CASE op = OP_HELLO -> onHello(S0, w)
    [] op = OP_READY -> onReady(S0, w, ok, modes)
    [] op = OP_SESSION_DESCRIPTION -> onSessionDescription(S0, w)
    [] op = 7 -> Emit(onHeartbeatAck(S0, w), Eff("heartbeat_ack", w, 0, 0, ""))
    [] op = OP_SPEAKING -> Emit(S0, Eff("speaking", w, 0, 0, ""))
    [] op = OP_CLIENT_DISCONNECT -> Emit(S0, Eff("client_disconnect", w, 0, 0, ""))
    [] op = OP_RESUMED -> onResumed(S0, w)
    [] OTHER -> Emit(S0, Eff("console.warn", w, op, 0, "Unknown voice gateway opcode"))

\* handleMessage: the switch on payload.op
handleMessage(S, w, op, ok, modes) ==
  LET S0 == Emit(S, Eff("message", w, op, 0, "")) IN
  CASE op = OP_HELLO -> onHello(S0, w)
    [] op = OP_READY -> onReady(S0, w, ok, modes)
    [] op = OP_SESSION_DESCRIPTION -> onSessionDescription(S0, w)
    [] op = OP_HEARTBEAT_ACK ->
         Emit(onHeartbeatAck(S0, w), Eff("heartbeat_ack", w, 0, 0, ""))
    [] op = OP_SPEAKING -> Emit(S0, Eff("speaking", w, 0, 0, ""))
    [] op = OP_CLIENT_DISCONNECT -> Emit(S0, Eff("client_disconnect", w, 0, 0, ""))
    [] op = OP_RESUMED -> onResumed(S0, w)
    [] OTHER -> Emit(S0, Eff("console.warn", w, op, 0, "Unknown voice gateway opcode"))

\* the silence timer as it would be with `count++ <= 5`
silenceTick_OneMore(S) ==
  LET c == S.silenceFrameInterval.count IN
  Then([S EXCEPT !.silenceFrameInterval.count = c + 1], LAMBDA S1 :
  IF c <= SilenceFrames
    THEN IF S1.voiceUDP # 0
           THEN Then(UdpSendAudioPacket(S1, S1.voiceUDP, SILENCE), LAMBDA S2 :
                IF S2.exc # "" THEN Uncaught([S2 EXCEPT !.tail.missed = @ + 1], S2.exc)
                ELSE IF Len(S2.out) > Len(S1.out) THEN [S2 EXCEPT !.tail.sent = @ + 1]
                ELSE [S2 EXCEPT !.tail.missed = @ + 1])
           ELSE [S1 EXCEPT !.tail.missed = @ + 1]
    ELSE stopSilenceFrames(S1))

\* the interval callback of startSilenceFrames
silenceTick(S) ==
  LET c == S.silenceFrameInterval.count IN
  Then([S EXCEPT !.silenceFrameInterval.count = c + 1], LAMBDA S1 :
  IF c < SilenceFrames
    THEN IF S1.voiceUDP # 0
           THEN Then(UdpSendAudioPacket(S1, S1.voiceUDP, SILENCE), LAMBDA S2 :
                IF S2.exc # "" THEN Uncaught([S2 EXCEPT !.tail.missed = @ + 1], S2.exc)
                ELSE IF Len(S2.out) > Len(S1.out) THEN [S2 EXCEPT !.tail.sent = @ + 1]
                ELSE [S2 EXCEPT !.tail.missed = @ + 1])
           ELSE [S1 EXCEPT !.tail.missed = @ + 1]
    ELSE stopSilenceFrames(S1))

(* ------------------------------ AudioPlayer ---------------------------- *)
\* an effect of the player: st is the player's status at that moment
PEmit(S, eff) == [S EXCEPT !.out = Append(@, [eff EXCEPT !.st = S.player.status])]

\* emit('stateChange', this.state, oldStatus)
PlayerStateChange(S, oldStatus) == PEmit(S, Eff("player.stateChange", 0, 0, 0, oldStatus))

\* clearInterval(this.intervalId); this.intervalId = undefined
ClearInterval(S) ==
  IF S.player.intervalId
    THEN [S EXCEPT !.player.intervalId = FALSE, !.player.intervals = @ - 1]
    ELSE S

\* this.intervalId = setInterval(...)
SetInterval(S) == [S EXCEPT !.player.intervalId = TRUE, !.player.intervals = @ + 1]

\* `for (const connection of this.connections) connection.sendAudioPacket(frame)`;
\* a: 1 in the silence loop of stop(), else 0; b: the index of that loop
RECURSIVE SendToAll(_, _, _, _, _)
SendToAll(S, c, frame, a, b) ==
  IF c > MaxSubs THEN S
  ELSE SendToAll(IF c \in S.player.connections
                   THEN PEmit(S, Eff("sendAudioPacket", c, a, b, frame))
                   ELSE S,
                 c + 1, frame, a, b)

\* the silence loop of stop()
RECURSIVE SilenceLoop(_, _)
SilenceLoop(S, i) ==
  IF i >= StopSilenceFrames THEN S
  ELSE SilenceLoop(SendToAll(S, 1, SILENCE, 1, i), i + 1)

\* AudioPlayer.stop
stop(S, force) ==
  IF S.player.status = IDLE /\ ~force THEN S
  ELSE Then(SilenceLoop(ClearInterval(S), 0), LAMBDA S1 :
       PEmit(PlayerStateChange([S1 EXCEPT !.player.status = IDLE,
                                          !.player.resource = FALSE,
                                          !.player.missedFrames = 0,
                                          !.player.playbackDuration = 0],
                               S.player.status),
             Eff("player.idle", 0, 0, 0, "")))

\* AudioPlayer.pause
pause(S) ==
  IF S.player.status # PLAYING THEN S
  ELSE ClearInterval(PlayerStateChange([S EXCEPT !.player.status = PAUSED], PLAYING))

\* AudioPlayer.resume
PlayerResume(S) ==
  IF S.player.status # PAUSED THEN S
  ELSE SetInterval(PlayerStateChange([S EXCEPT !.player.status = PLAYING], PAUSED))

\* AudioPlayer.startPlayback
startPlayback(S) ==
  IF S.player.status # BUFFERING THEN S
  ELSE SetInterval(PlayerStateChange([S EXCEPT !.player.status = PLAYING], BUFFERING))

\* AudioPlayer.play, with the 100 ms timer it sets
play(S) ==
  Then(IF S.player.status # IDLE THEN stop(S, FALSE) ELSE S, LAMBDA S1 :
  [PlayerStateChange([S1 EXCEPT !.player.status = BUFFERING,
                                !.player.resource = TRUE,
                                !.player.missedFrames = 0,
                                !.player.playbackDuration = 0], IDLE)
     EXCEPT !.player.timeouts = @ + 1,
            !.player.plays = @ + 1])

\* the callback of play()'s setTimeout
onBufferTimeout(S) ==
  Then([S EXCEPT !.player.timeouts = @ - 1], LAMBDA S1 :
  IF S1.player.status = BUFFERING THEN startPlayback(S1) ELSE S1)

\* AudioPlayer.getNextFrame: "" is null
getNextFrame(P) ==
  IF ~P.resource THEN ""
  ELSE IF P.playbackDuration > DemoDurationMs THEN ""
  ELSE SILENCE

\* sendNextFrame from `const frame = this.getNextFrame()` on
sendNextFrame_frame(S) ==
  LET frame == getNextFrame(S.player) IN
  IF frame = "" THEN stop(S, FALSE)
  ELSE [SendToAll(S, 1, frame, 0, 0) EXCEPT !.player.playbackDuration = @ + FrameMs]

\* AudioPlayer.sendNextFrame; late: now - (lastFrameTime + 20) > 5
sendNextFrame(S, late) ==
  IF S.player.status # PLAYING THEN S
  ELSE IF late
    THEN Then([S EXCEPT !.player.missedFrames = @ + 1], LAMBDA S1 :
         IF S1.player.missedFrames >= S1.player.maxMissedFrames
           THEN pause(S1)
           ELSE sendNextFrame_frame(S1))
    ELSE sendNextFrame_frame([S EXCEPT !.player.missedFrames = 0])

\* AudioPlayer.subscribe
subscribe(S, c) ==
  Then([S EXCEPT !.player.connections = @ \cup {c}], LAMBDA S1 :
  PEmit(IF Cardinality(S1.player.connections) = 1 /\ S1.player.status = AUTOPAUSED
          THEN startPlayback(PlayerStateChange([S1 EXCEPT !.player.status = PLAYING],
                                               AUTOPAUSED))
          ELSE S1,
        Eff("player.subscribe", c, 0, 0, "")))

\* AudioPlayer.unsubscribe
unsubscribe(S, c) ==
  Then([S EXCEPT !.player.connections = @ \ {c}], LAMBDA S1 :
  IF c \notin S.player.connections THEN S1
  ELSE PEmit(IF S1.player.connections = {} /\ S1.player.status = PLAYING
               THEN CASE S1.player.noSubscriber = "pause" ->
                           ClearInterval(PlayerStateChange(
                             [S1 EXCEPT !.player.status = AUTOPAUSED], PLAYING))
                      [] S1.player.noSubscriber = "stop" -> stop(S1, FALSE)
                      [] OTHER -> S1
               ELSE S1,
             Eff("player.unsubscribe", c, 0, 0, "")))

\* AudioPlayer.destroy
PlayerDestroy(S) == [stop(S, TRUE) EXCEPT !.player.connections = {}]

(* --------------------------- WebSocketHandler -------------------------- *)
\* WebSocketHandler.send: throws unless this.ws is an OPEN socket
GwSend(S, op) ==
  LET H == S.handler IN
  IF H.ws = 0 \/ H.socks[H.ws].readyState # "open"
    THEN Raise(S, "WebSocket not connected")
    ELSE Emit(S, Eff("gateway.send", H.ws, 0, 0, op))

\* WebSocketHandler.sendHeartbeat: returns without an OPEN socket, closes the
\* socket when the last heartbeat was not acknowledged, else sends and sets the
\* timer of the next call
sendHeartbeat(S) ==
  LET H == S.handler IN
  IF H.ws = 0 \/ H.socks[H.ws].readyState # "open" THEN S
  ELSE IF ~H.lastHeartbeatAck
    THEN Emit([S EXCEPT !.handler.socks[H.ws].readyState = "closing"],
              Eff("gateway.close", H.ws, NORMAL_CLOSURE, 0, "Heartbeat ACK not received"))
  ELSE [GwSend([S EXCEPT !.handler.lastHeartbeatAck = FALSE], "Heartbeat")
          EXCEPT !.handler.heartbeats = @ + 1]

\* WebSocketHandler.startHeartbeat
startHeartbeat(S) == sendHeartbeat(S)

\* WebSocketHandler.identify
identify(S) == GwSend(S, "Identify")

\* WebSocketHandler.resume
GwResume(S) ==
  IF ~S.handler.session THEN Raise(S, "No session to resume") ELSE GwSend(S, "Resume")

\* WebSocketHandler.cleanup: close() on a socket that is CONNECTING or OPEN
\* starts its closing
GwCleanup(S) ==
  LET H == S.handler IN
  [(IF H.ws = 0 THEN S
    ELSE Emit([S EXCEPT !.handler.ws = 0,
                        !.handler.socks[H.ws].readyState =
                           IF @ \in {"connecting", "open"} THEN "closing" ELSE @],
              Eff("gateway.close", H.ws, 0, 0, "")))
     EXCEPT !.handler.lastHeartbeatAck = TRUE]

\* WebSocketHandler.connect: socket s is the new WebSocket
GwConnect(S, s) ==
  Emit([S EXCEPT !.handler.ws = s,
                 !.handler.socks[s] = [NoSocket EXCEPT !.readyState = "connecting"]],
       Eff("gateway.open", s, 0, 0, ""))

\* WebSocketHandler.reconnect up to its 1000 ms wait
GwReconnect(S) == [GwCleanup(S) EXCEPT !.handler.waits = @ + 1]

\* WebSocketHandler.handleDispatch; ready: payload.t is READY
handleDispatch(S, ready) ==
  IF ready
    THEN Emit([S EXCEPT !.handler.session = TRUE], Eff("storage.put", 0, 0, 0, "session"))
    ELSE Emit(S, Eff("storage.put", 0, 0, 0, "event"))

\* WebSocketHandler.handleGatewayMessage: the switch on payload.op; d is
\* payload.d of INVALID_SESSION, and for a dispatch whether it is READY
handleGatewayMessage(S, op, d) ==
  CASE op = "Hello" ->
         Then(startHeartbeat(S), LAMBDA S1 : IF S1.exc # "" THEN S1 ELSE identify(S1))
    [] op = "HeartbeatAck" -> [S EXCEPT !.handler.lastHeartbeatAck = TRUE]
    [] op = "Dispatch" -> handleDispatch(S, d)
    [] op = "Reconnect" -> GwReconnect(S)
    [] op = "InvalidSession" -> IF d THEN GwResume(S) ELSE identify(S)
    [] OTHER -> S

\* WebSocketHandler.handleConnect, with the connect() it awaits; s is the new
\* WebSocket
handleConnect(S, s) ==
  LET H == S.handler IN
  IF H.ws # 0 /\ H.socks[H.ws].readyState = "open"
    THEN Emit(S, Eff("response", 0, 400, 0, "Already connected"))
    ELSE Emit(GwConnect(S, s), Eff("response", 0, 200, 0, "success"))

\* WebSocketHandler.handleDisconnect
handleDisconnect(S) == Emit(GwCleanup(S), Eff("response", 0, 200, 0, "success"))

(* ------------------------------- actions ------------------------------- *)
Do(S) == Becomes(S) /\ UNCHANGED << reconnectCalls, budget >>

\* the caller calls a public method: the first effect of the handler names it,
\* with the state it was called in and whether destroy() had been called
Called(S, method) ==
  Emit(S, Eff("call", 0, IF S.destroyCalled THEN 1 ELSE 0, S.reconnectAttempts, method))

\* a timer of the supervisor fires: the first effect of the handler names it,
\* with the activation it belongs to and reconnectAttempts at that moment
Fired(S, timer, i) == Emit(S, Eff("timer", i, 0, S.reconnectAttempts, timer))

\* a handler that may send audio: one unit of the run's budget
DoAudio(S) ==
  /\ Becomes(S)
  /\ budget' = budget - 1
  /\ UNCHANGED reconnectCalls

HasFree == \E i \in Conns : conn[i].pc = "idle"
FreeSlot == IF HasFree THEN CHOOSE i \in Conns :
                              /\ conn[i].pc = "idle"
                              /\ \A j \in Conns : conn[j].pc = "idle" => i <= j
            ELSE 0

Connect ==
  /\ (state = DISCONNECTED /\ gateway) => HasFree
  /\ Do(connect(Called(Cur, "connect"), FALSE, FreeSlot))

Disconnect ==
  /\ Becomes(disconnect(Called(Cur, "disconnect")))
  /\ UNCHANGED << reconnectCalls, budget >>

Destroy ==
  /\ Becomes(destroy(Called(Cur, "destroy")))
  /\ UNCHANGED << reconnectCalls, budget >>

Reconnect ==
  /\ reconnectCalls < MaxReconnectCalls
  /\ Becomes(reconnect(Called(Cur, "reconnect"), FALSE))
  /\ reconnectCalls' = reconnectCalls + 1
  /\ UNCHANGED budget

StartSpeaking ==
  /\ Becomes(startSpeaking(Called(Cur, "startSpeaking")))
  /\ UNCHANGED << reconnectCalls, budget >>

StopSpeaking ==
  /\ Becomes(stopSpeaking(Called(Cur, "stopSpeaking")))
  /\ UNCHANGED << reconnectCalls, budget >>

SendAudioPacket ==
  /\ budget > 0
  /\ \E payload \in {OPUS, SILENCE} :
       DoAudio(Then(sendAudioPacket(Called(Cur, "sendAudioPacket"), payload), LAMBDA S :
               IF S.exc # "" THEN Surface(S, S.exc) ELSE S))

VoiceServerUpdate ==
  /\ \E i \in Conns : conn[i].listeners
  /\ \E guildMatch \in BOOLEAN, ep \in Endpoints :
       Do(onVoiceServerUpdate(Cur, guildMatch, 1, ep))

\* a VOICE_SERVER_UPDATE of the guild that carries another token or endpoint
\* than the supervisor holds
VoiceServerMigrates ==
  /\ \E i \in Conns : conn[i].listeners
  /\ token # 0 /\ endpoint # 0
  /\ \E m \in Migrations :
       /\ m # <<token, endpoint>>
       /\ Do(onVoiceServerUpdate(Cur, TRUE, m[1], m[2]))

VoiceStateUpdate ==
  /\ \E i \in Conns : conn[i].listeners
  /\ \E guildMatch \in BOOLEAN, userMatch \in BOOLEAN :
       Do(onVoiceStateUpdate(Cur, guildMatch, userMatch, 1))

\* a VOICE_STATE_UPDATE of the user in the guild that carries another session
\* id than the supervisor holds
VoiceStateMoves ==
  /\ \E i \in Conns : conn[i].listeners
  /\ sessionId # 0
  /\ \E sid \in SessionIds :
       /\ sid # sessionId
       /\ Do(onVoiceStateUpdate(Cur, TRUE, TRUE, sid))

\* the main gateway emits an event: the first effect of the handler names it
\* and says whether its guild_id and user_id are the supervisor's (1) or not (0)
Received(S, event, guildMatch, userMatch) ==
  Emit(S, Eff("gateway", 0, IF guildMatch THEN 1 ELSE 0, IF userMatch THEN 1 ELSE 0, event))

\* a VOICE_SERVER_UPDATE of another guild, with that guild's token and endpoint
ForeignServerUpdate ==
  /\ \E i \in Conns : conn[i].listeners
  /\ \E guildMatch \in {FALSE} :
       Do(onVoiceServerUpdate(Received(Cur, "VOICE_SERVER_UPDATE", guildMatch, TRUE),
                              guildMatch, ForeignValue, ForeignValue))

\* a VOICE_STATE_UPDATE of another guild or of another user, with its session id
ForeignStateUpdate ==
  /\ \E i \in Conns : conn[i].listeners
  /\ \E guildMatch \in BOOLEAN, userMatch \in BOOLEAN :
       /\ ~(guildMatch /\ userMatch)
       /\ Do(onVoiceStateUpdate(Received(Cur, "VOICE_STATE_UPDATE", guildMatch, userMatch),
                                guildMatch, userMatch, ForeignValue))

VoiceInfoTimeout ==
  \E i \in Conns :
    /\ conn[i].timer
    /\ Do(ConnectFail(Fired([Cur EXCEPT !.conn[i].timer = FALSE], "voiceInfo", i), i,
                      "Timeout waiting for voice server info"))

WsOpen ==
  \E w \in Conns :
    /\ ws[w].sock = "connecting"
    /\ Do([Cur EXCEPT !.ws[w].sock = "open"])

Delivers(w) == ws[w].sock \in {"open", "closing"}

WsHello == \E w \in Conns : Delivers(w) /\ Do(onHello(Cur, w))

WsReady ==
  \E w \in Conns :
    /\ Delivers(w)
    /\ \E ok \in BOOLEAN, modes \in ModeOffers : Do(onReady(Cur, w, ok, modes))

WsSessionDescription == \E w \in Conns : Delivers(w) /\ Do(onSessionDescription(Cur, w))

WsHeartbeatAck == \E w \in Conns : Delivers(w) /\ Do(onHeartbeatAck(Cur, w))

WsClose ==
  \E w \in Conns :
    /\ ws[w].sock \in {"connecting", "open", "closing"}
    /\ \E code \in (IF ws[w].sock = "closing" THEN {ws[w].code} ELSE CloseCodes) :
         Do(onClose(Cur, w, code))

\* the server closes the voice gateway with a fatal code
WsFatalClose ==
  \E w \in Conns :
    /\ ws[w].sock \in {"connecting", "open"}
    /\ \E code \in FatalCodes : Do(onClose(Cur, w, code))

WsResumed == \E w \in Conns : Delivers(w) /\ Do(onResumed(Cur, w))

\* onmessage: a message of the voice server with any opcode
WsMessage ==
  \E w \in Conns :
    /\ Delivers(w)
    /\ \E op \in Opcodes :
         Do(handleMessage(Cur, w, op, TRUE, <<XSALSA20_POLY1305_LITE, XSALSA20_POLY1305>>))

\* resume() called on a VoiceWebSocket that connect() has been called on
ResumeCall ==
  \E w \in Conns :
    /\ ws[w].sock # "none"
    /\ Do(resume(Called(Cur, "resume"), w))

\* onerror: emit('error') on an emitter without an 'error' listener throws,
\* so the reject(error) after it is not reached
WsError ==
  \E w \in Conns :
    /\ ws[w].sock \in {"connecting", "open"}
    /\ Do(Uncaught(Cur, "Unhandled 'error' event"))

HeartbeatTick == \E w \in Conns : ws[w].heartbeatInterval /\ Do(heartbeatTick(Cur, w))

WsConnectionTimeout ==
  \E w \in Conns : ws[w].connectionTimeout /\ Do(onConnectionTimeout(Cur, w))

SilenceTick ==
  /\ silenceFrameInterval.on
  /\ budget > 0
  /\ DoAudio(silenceTick(Cur))

BackoffExpire ==
  /\ backoff > 0
  /\ (state = DISCONNECTED /\ gateway) => HasFree
  /\ Do(connect(Fired([Cur EXCEPT !.backoff = @ - 1], "backoff", 0), TRUE, FreeSlot))

RetryTimer ==
  \/ /\ reconnectTimeout.held
     /\ Do(reconnect(Fired([Cur EXCEPT !.reconnectTimeout.held = FALSE], "retry", 0), TRUE))
  \/ /\ reconnectTimeout.orphans > 0
     /\ Do(reconnect(Fired([Cur EXCEPT !.reconnectTimeout.orphans = @ - 1], "retry", 0), TRUE))

\* the caller calls a method of the player: the first effect of the handler
\* names it, with the status it was called in, missedFrames and the number of
\* connections
PlayerCalled(S, method) ==
  PEmit(S, Eff("player.call", 0, S.player.missedFrames,
               Cardinality(S.player.connections), method))

\* the 20 ms interval fires: the first effect of the handler says so, with the
\* status, missedFrames and whether getNextFrame has a frame (1) or not (0)
PlayerFired(S) ==
  PEmit(S, Eff("player.timer", 0, S.player.missedFrames,
               IF getNextFrame(S.player) = "" THEN 0 ELSE 1, "frame"))

Play ==
  /\ player.plays < MaxPlays
  /\ Do(play(PlayerCalled(Cur, "play")))

Pause ==
  /\ Becomes(pause(PlayerCalled(Cur, "pause")))
  /\ UNCHANGED << reconnectCalls, budget >>

Resume ==
  /\ Becomes(PlayerResume(PlayerCalled(Cur, "resume")))
  /\ UNCHANGED << reconnectCalls, budget >>

Stop ==
  /\ Becomes(stop(PlayerCalled(Cur, "stop"), FALSE))
  /\ UNCHANGED << reconnectCalls, budget >>

Subscribe ==
  \E c \in Subs :
    /\ Becomes(subscribe(PlayerCalled(Cur, "subscribe"), c))
    /\ UNCHANGED << reconnectCalls, budget >>

Unsubscribe ==
  \E c \in Subs :
    /\ Becomes(unsubscribe(PlayerCalled(Cur, "unsubscribe"), c))
    /\ UNCHANGED << reconnectCalls, budget >>

BufferTimeout ==
  /\ player.timeouts > 0
  /\ Do(onBufferTimeout(Cur))

FrameTick ==
  /\ player.intervals > 0
  /\ budget > 0
  /\ \E late \in BOOLEAN : DoAudio(sendNextFrame(PlayerFired(Cur), late))

\* the WebSocket the next `new WebSocket(gatewayUrl)` creates, 0 when the run
\* has made them all
FreeSocket ==
  IF \E s \in Sockets : handler.socks[s].readyState = "none"
    THEN CHOOSE s \in Sockets :
           /\ handler.socks[s].readyState = "none"
           /\ \A r \in Sockets : handler.socks[r].readyState = "none" => s <= r
    ELSE 0

\* fetch('/connect')
HandleConnect ==
  /\ (handler.ws = 0 \/ handler.socks[handler.ws].readyState # "open") => FreeSocket # 0
  /\ Becomes(handleConnect(Called(Cur, "/connect"), FreeSocket))
  /\ UNCHANGED << reconnectCalls, budget >>

\* fetch('/disconnect')
HandleDisconnect ==
  /\ Becomes(handleDisconnect(Called(Cur, "/disconnect")))
  /\ UNCHANGED << reconnectCalls, budget >>

\* the 'open' listener of a socket: it logs
GwOpen ==
  \E s \in Sockets :
    /\ handler.socks[s].readyState = "connecting"
    /\ Becomes([Cur EXCEPT !.handler.socks[s].readyState = "open"])
    /\ UNCHANGED << reconnectCalls, budget >>

\* the WebSockets the run may still create
UnusedSockets == { s \in Sockets : handler.socks[s].readyState = "none" }

\* the 'message' listener of socket s, which is OPEN: the server sends HELLO
\* once on a socket, and the other payloads at any time (a RECONNECT as long as
\* the run has a WebSocket left for the connect() that follows it).  What the
\* async listener throws is an unhandled rejection.
GwMessage ==
  \E s \in Sockets, op \in GatewayOps, d \in BOOLEAN :
    /\ handler.socks[s].readyState = "open"
    /\ op = "Hello" => ~handler.socks[s].hello
    /\ op = "Reconnect" => handler.waits < Cardinality(UnusedSockets)
    /\ op \notin {"Dispatch", "InvalidSession"} => d
    /\ Becomes(Then(handleGatewayMessage(
                      Emit([Cur EXCEPT !.handler.socks[s].hello = @ \/ (op = "Hello")],
                           Eff("gateway.message", s, 0, 0, op)), op, d), LAMBDA S :
                IF S.exc # "" THEN Uncaught(S, S.exc) ELSE S))
    /\ UNCHANGED << reconnectCalls, budget >>

\* the 'close' listener of socket s: cleanup()
GwClose ==
  \E s \in Sockets :
    /\ handler.socks[s].readyState \in {"connecting", "open", "closing"}
    /\ Becomes(GwCleanup(Emit([Cur EXCEPT !.handler.socks[s].readyState = "closed"],
                              Eff("gateway.closed", s, 0, 0, ""))))
    /\ UNCHANGED << reconnectCalls, budget >>

\* the timer of sendHeartbeat fires
HeartbeatTimer ==
  /\ handler.heartbeats > 0
  /\ Becomes(sendHeartbeat(Emit([Cur EXCEPT !.handler.heartbeats = @ - 1],
                                Eff("timer", 0, 0, 0, "heartbeat"))))
  /\ UNCHANGED << reconnectCalls, budget >>

\* the 1000 ms wait of reconnect() ends: connect()
ReconnectWaitEnds ==
  /\ handler.waits > 0
  /\ FreeSocket # 0
  /\ Becomes(GwConnect(Emit([Cur EXCEPT !.handler.waits = @ - 1],
                            Eff("timer", 0, 0, 0, "reconnect")), FreeSocket))
  /\ UNCHANGED << reconnectCalls, budget >>

\* the program after `new VoiceConnection(options, gateway)`
Constructed(g, node) ==
  [gateway |-> g, isNodeEnvironment |-> node, tail |-> [sent |-> 0, missed |-> 0], destroyCalled |-> FALSE,
   state |-> DISCONNECTED, voiceWebSocket |-> 0, voiceUDP |-> 0,
   sessionId |-> 0, token |-> 0, endpoint |-> 0, speaking |-> FALSE,
   reconnectAttempts |-> 0,
   reconnectTimeout |-> [held |-> FALSE, orphans |-> 0],
   silenceFrameInterval |-> [on |-> FALSE, count |-> 0],
   backoff |-> 0,
   conn |-> [i \in Conns |-> NoConn],
   ws |-> [i \in Conns |-> NoWs],
   udp |-> [i \in Conns |-> NoUdp],
   player |-> NewAudioPlayer("pause", DefaultMaxMissedFrames),
   handler |-> NewWebSocketHandler,
   out |-> <<>>, exc |-> "", ret |-> <<>>]

\* the variables hold snapshot S as it is
HoldsAsIs(S) ==
  /\ gateway = S.gateway
  /\ isNodeEnvironment = S.isNodeEnvironment
  /\ state = S.state
  /\ voiceWebSocket = S.voiceWebSocket
  /\ voiceUDP = S.voiceUDP
  /\ sessionId = S.sessionId
  /\ token = S.token
  /\ endpoint = S.endpoint
  /\ speaking = S.speaking
  /\ reconnectAttempts = S.reconnectAttempts
  /\ reconnectTimeout = S.reconnectTimeout
  /\ silenceFrameInterval = S.silenceFrameInterval
  /\ tail = S.tail
  /\ destroyCalled = S.destroyCalled
  /\ backoff = S.backoff
  /\ conn = S.conn
  /\ ws = S.ws
  /\ udp = S.udp
  /\ player = S.player
  /\ handler = S.handler
  /\ out = <<>>
  /\ reconnectCalls = 0

\* the variables hold snapshot T, no handler has run since
Holds(T) == \E S \in {Collect(T)} : HoldsAsIs(S)

(* ---- connection lifecycle: connect, the two gateway events, the voice ---- *)
(* ---- gateway up to READY, disconnect, destroy                         ---- *)
Init ==
  /\ \E g \in BOOLEAN, node \in BOOLEAN : Holds(Constructed(g, node))
  /\ budget = 0

Next ==
  \/ Connect
  \/ Disconnect
  \/ Destroy
  \/ VoiceServerUpdate
  \/ VoiceStateUpdate
  \/ VoiceInfoTimeout
  \/ WsOpen
  \/ WsReady
  \/ WsClose

Spec == Init /\ [][Next]_vars

(* ---- the same with audio: speaking, packets, the silence timer ---- *)
InitAudio ==
  /\ \E g \in {TRUE} : Holds(Constructed(g, TRUE))
  /\ budget = MaxEarlySeq

NextAudio ==
  \/ Connect
  \/ Disconnect
  \/ Destroy
  \/ VoiceServerUpdate
  \/ VoiceStateUpdate
  \/ VoiceInfoTimeout
  \/ WsOpen
  \/ WsReady
  \/ WsSessionDescription
  \/ WsClose
  \/ StartSpeaking
  \/ StopSpeaking
  \/ SendAudioPacket
  \/ SilenceTick

SpecAudio == InitAudio /\ [][NextAudio]_vars

(* ---- one session from the moment connect() has seen both gateway ---- *)
(* ---- events and opened the voice gateway socket                  ---- *)
Joined(g) ==
  onVoiceStateUpdate(
    onVoiceServerUpdate(connect(Constructed(g, TRUE), FALSE, 1), TRUE, 1, 1),
    TRUE, TRUE, 1)

InitWs ==
  /\ \E g \in {TRUE} : Holds(Joined(g))
  /\ budget = 0

NextWs ==
  \/ WsOpen
  \/ WsHello
  \/ WsReady
  \/ WsHeartbeatAck
  \/ HeartbeatTick
  \/ WsConnectionTimeout
  \/ WsClose
  \/ WsFatalClose
  \/ WsError
  \/ WsResumed
  \/ Disconnect

SpecWs == InitWs /\ [][NextWs]_vars

(* ---- one session from the moment connect() has resolved ---- *)
Established(modes) ==
  onReady([Joined(TRUE) EXCEPT !.ws[1].sock = "open"], 1, TRUE, modes)

InitTail ==
  /\ \E modes \in ModeOffers : Holds(Established(modes))
  /\ budget = MaxSeq

NextTail ==
  \/ StartSpeaking
  \/ StopSpeaking
  \/ SendAudioPacket
  \/ SilenceTick
  \/ WsSessionDescription
  \/ WsClose
  \/ Disconnect
  \/ Destroy
  \/ Reconnect

SpecTail == InitTail /\ [][NextTail]_vars

(* ---- reconnection of an established session: reconnect(), its backoff ---- *)
(* ---- wait, the connect() it makes and the retry timer                ---- *)
InitReconnect ==
  /\ \E modes \in {<<XSALSA20_POLY1305_LITE, XSALSA20_POLY1305>>} :
        Holds(Established(modes))
  /\ budget = 0

NextReconnect ==
  \/ Reconnect
  \/ BackoffExpire
  \/ RetryTimer
  \/ Disconnect
  \/ Destroy
  \/ VoiceServerUpdate
  \/ VoiceStateUpdate
  \/ VoiceInfoTimeout
  \/ WsOpen
  \/ WsReady

SpecReconnect == InitReconnect /\ [][NextReconnect]_vars

(* ---- an established session and the main gateway: the voice server ---- *)
(* ---- moves the session, the caller leaves and joins again          ---- *)
InitMigrate ==
  /\ \E modes \in {<<XSALSA20_POLY1305_LITE, XSALSA20_POLY1305>>} :
        Holds(Established(modes))
  /\ budget = 0

NextMigrate ==
  \/ VoiceServerMigrates
  \/ VoiceStateMoves
  \/ VoiceServerUpdate
  \/ VoiceStateUpdate
  \/ WsOpen
  \/ WsReady
  \/ WsSessionDescription
  \/ WsClose
  \/ Connect
  \/ Disconnect

SpecMigrate == InitMigrate /\ [][NextMigrate]_vars

(* ---- mode selection: connect() between the 'ready' listener of the    ---- *)
(* ---- voice gateway, which has stored the offered modes, and its own  ---- *)
(* ---- continuation, which selects one                                 ---- *)
InitModes ==
  /\ \E offer \in Offers :
        HoldsAsIs(readyListener([Joined(TRUE) EXCEPT !.ws[1].sock = "open"], 1, TRUE, offer))
  /\ budget = 0

\* connect() resumes after `await this.connectVoiceWebSocket()`
ConnectResumes ==
  \E i \in Conns :
    /\ conn[i].pc = "waitWS"
    /\ ws[i].ready
    /\ Do(connectUDP(Cur, i))

NextModes ==
  \/ ConnectResumes
  \/ Disconnect

SpecModes == InitModes /\ [][NextModes]_vars

(* ---- the wait for the voice info, with events of other guilds and ---- *)
(* ---- users on the main gateway                                   ---- *)
NextScope ==
  \/ Connect
  \/ Disconnect
  \/ VoiceServerUpdate
  \/ VoiceStateUpdate
  \/ ForeignServerUpdate
  \/ ForeignStateUpdate
  \/ VoiceInfoTimeout
  \/ WsOpen

SpecScope == Init /\ [][NextScope]_vars

(* ---- the voice gateway by opcode: messages of any opcode arrive, the ---- *)
(* ---- heartbeat timer runs, resume() is called                      ---- *)
InitOpcodes ==
  /\ \E g \in {TRUE} : Holds(Joined(g))
  /\ budget = 0

NextOpcodes ==
  \/ WsOpen
  \/ WsMessage
  \/ HeartbeatTick
  \/ ResumeCall
  \/ WsClose

SpecOpcodes == InitOpcodes /\ [][NextOpcodes]_vars

(* ---- the AudioPlayer and the connections subscribed to it: from a new ---- *)
(* ---- player, and from a player that has played n frames on time     ---- *)
\* the first n with getNextFrame without a frame after n frames
LastFrame == DemoDurationMs \div FrameMs + 1

PlayerStarts == {0, LastFrame - 1}

\* the player after subscribe(1), play(), the 100 ms timer and n ticks on time
AfterFrames(S, n) ==
  [S EXCEPT !.player.status = PLAYING,
            !.player.resource = TRUE,
            !.player.playbackDuration = FrameMs * n,
            !.player.connections = {1},
            !.player.intervalId = TRUE,
            !.player.intervals = 1,
            !.player.plays = 1]

InitPlayer ==
  /\ \E noSubscriber \in NoSubscriber :
       \/ Holds([Constructed(TRUE, TRUE) EXCEPT
                   !.player = NewAudioPlayer(noSubscriber, DefaultMaxMissedFrames)])
       \/ \E n \in PlayerStarts :
            Holds(AfterFrames([Constructed(TRUE, TRUE) EXCEPT
                    !.player = NewAudioPlayer(noSubscriber, DefaultMaxMissedFrames)], n))
  /\ budget = MaxTicks

NextPlayer ==
  \/ Play
  \/ Pause
  \/ Resume
  \/ Stop
  \/ Subscribe
  \/ Unsubscribe
  \/ BufferTimeout
  \/ FrameTick

SpecPlayer == InitPlayer /\ [][NextPlayer]_vars

(* ---- the main gateway: the WebSocketHandler, its sockets, the server's ---- *)
(* ---- messages and its heartbeat timers                               ---- *)
InitGateway ==
  /\ \E g \in {TRUE} : Holds(Constructed(g, TRUE))
  /\ budget = 0

NextGateway ==
  \/ HandleConnect
  \/ HandleDisconnect
  \/ GwOpen
  \/ GwMessage
  \/ GwClose
  \/ HeartbeatTimer
  \/ ReconnectWaitEnds

SpecGateway == InitGateway /\ [][NextGateway]_vars

(* ---- the RTP cursor of one VoiceUDPSocket, from the states it is in ---- *)
(* ---- after n packets                                               ---- *)
\* the first packet index whose timestamp 960 * n no longer fits 31 bits
WrapIndex == (TwoPow31 + FrameStep - 1) \div FrameStep

RtpStarts == {0, TwoPow16 - 2, WrapIndex - 2}

\* the socket after n calls of sendAudioPacket that all sent a packet
AfterPackets(S, u, n, mode) ==
  [S EXCEPT !.udp[u].secretKey = TRUE,
            !.udp[u].encryptionMode = mode,
            !.udp[u].sequence = And0xFFFF(n),
            !.udp[u].timestamp = And0xFFFFFFFF(FrameStep * n),
            !.udp[u].nonce = IF mode = XSALSA20_POLY1305_LITE THEN n ELSE 0,
            !.udp[u].emitted = n]

InitRtp ==
  /\ \/ \E n \in RtpStarts, mode \in {XSALSA20_POLY1305_LITE, XSALSA20_POLY1305} :
          Holds(AfterPackets(Established(<<mode>>), 1, n, mode))
     \/ \E modes \in ModeOffers \cup {<<XSALSA20_POLY1305>>} : Holds(Established(modes))
  /\ budget = MaxRtpSteps

UdpSendAudioPacketCall ==
  \E u \in Conns, payload \in {OPUS, SILENCE} :
    /\ udp[u].made
    /\ budget > 0
    /\ DoAudio(Then(UdpSendAudioPacket(Cur, u, payload), LAMBDA S :
               IF S.exc # "" THEN Surface(S, S.exc) ELSE S))

UdpSetSecretKey == \E u \in Conns : udp[u].made /\ Do(setSecretKey(Cur, u))

UdpCloseCall == \E u \in Conns : udp[u].made /\ ~udp[u].closed /\ Do(UdpClose(Cur, u))

NextRtp ==
  \/ UdpSendAudioPacketCall
  \/ UdpSetSecretKey
  \/ UdpCloseCall

SpecRtp == InitRtp /\ [][NextRtp]_vars

(* ============================== claims ================================ *)
Kinds(o, kinds) == { k \in DOMAIN o : o[k].e \in kinds }

IsLeave(x) == x.e = "op4" /\ x.p = "null"

\* the last handler was the caller's call of one of the methods
CallOf(methods) == out # <<>> /\ out[1].e = "call" /\ out[1].p \in methods

\* C1: an audio packet leaves the UDP socket only while the supervisor is in
\* state Ready and the socket holds the session key.
C1_AudioOnlyWhenReadyAndKeyed ==
  \A k \in Kinds(out, {"audio"}) :
     out[k].st = READY /\ udp[out[k].u].secretKey

\* C2: the socket's cursor is (k mod 2^16, 960 * k mod 2^32) after k packets,
\* the k-th packet (from 0) carries those two values, and neither moves when
\* nothing is sent.
C2_CursorAdvancesOncePerPacket ==
  \A u \in Conns :
    udp[u].made /\ voiceUDP = u =>
      /\ udp[u].sequence = udp[u].emitted % TwoPow16
      /\ udp[u].timestamp = (FrameStep * udp[u].emitted) % TwoPow32
      /\ \A k \in Kinds(out, {"audio"}) :
           out[k].u = u =>
             /\ out[k].a = (udp[u].emitted - 1) % TwoPow16
             /\ out[k].b = (FrameStep * (udp[u].emitted - 1)) % TwoPow32

\* the leave (op 4, channel null) is among the effects and precedes every
\* socket teardown
LeavesBeforeTeardown(o) ==
  \E k \in DOMAIN o :
    /\ IsLeave(o[k])
    /\ \A j \in Kinds(o, {"VoiceWebSocket.close", "socket.close", "udp.close"}) : k < j

\* C3 as claimed: in any state disconnect() sends the leave on the main gateway
\* before it tears the sockets down, and leaves the state Disconnected.
C3_DisconnectLeavesInAnyState ==
  (CallOf({"disconnect"}) /\ gateway) =>
     LeavesBeforeTeardown(out) /\ state = DISCONNECTED

\* C3 as amended: in any state but Destroyed, with a gateway that can send,
\* disconnect() sends the leave before it tears the sockets down and leaves the
\* state Disconnected; in state Destroyed it does nothing at all.
C3_DisconnectLeavesUnlessDestroyed ==
  CallOf({"disconnect"}) =>
     IF out[1].st = DESTROYED
       THEN Len(out) = 1 /\ state = DESTROYED
       ELSE /\ state = DISCONNECTED
            /\ voiceWebSocket = 0 /\ voiceUDP = 0
            /\ gateway => LeavesBeforeTeardown(out)
            /\ ~gateway => \A k \in DOMAIN out : ~IsLeave(out[k])

\* C3 witness: a disconnect() that found both sockets, sent the leave first
\* and closed them after it
C3_LeftThenClosedBoth ==
  /\ CallOf({"disconnect"})
  /\ out[1].st = READY
  /\ state = DISCONNECTED
  /\ LeavesBeforeTeardown(out)
  /\ Kinds(out, {"socket.close"}) # {}
  /\ Kinds(out, {"udp.close"}) # {}

\* C4: a destroy() after the first one changes nothing and emits no event
\* (the internal 'cleanup' emission, which no listener is left to hear, apart).
C4_DestroyIsIdempotent ==
  (CallOf({"destroy"}) /\ out[1].a = 1) =>
     /\ state = out[1].st
     /\ Kinds(out, {"call", "cleanup"}) = DOMAIN out

\* C5: once destroy() has been called, connect, reconnect, sendAudioPacket,
\* startSpeaking, stopSpeaking and disconnect fail with an error and change
\* nothing.
C5_CallsAfterDestroyFail ==
  (/\ CallOf({"connect", "reconnect", "sendAudioPacket",
              "startSpeaking", "stopSpeaking", "disconnect"})
   /\ out[1].a = 1) =>
     /\ Kinds(out, {"error"}) # {}
     /\ Kinds(out, {"call", "error"}) = DOMAIN out
     /\ state = out[1].st

\* C6: destroy() tears down as disconnect() does, the leave on the main
\* gateway included, and ends in Destroyed.
C6_DestroyLeavesLikeDisconnect ==
  (CallOf({"destroy"}) /\ gateway /\ out[1].st # DESTROYED) =>
     /\ state = DESTROYED
     /\ LeavesBeforeTeardown(out)

\* the two gateway events, delivered to the present state in either order
ServerThenState(ep) ==
  onVoiceStateUpdate(onVoiceServerUpdate(Cur, TRUE, 1, ep), TRUE, TRUE, 1)

StateThenServer(ep) ==
  onVoiceServerUpdate(onVoiceStateUpdate(Cur, TRUE, TRUE, 1), TRUE, 1, ep)

\* C7: the voice gateway socket is opened, and SELECT_PROTOCOL sent, only by
\* an activation of connect() that has seen both VOICE_SERVER_UPDATE and
\* VOICE_STATE_UPDATE, and while neither has arrived the two events lead to the
\* same state and effects in either order of arrival.
C7_SocketOnlyAfterBothEvents ==
  /\ \A k \in DOMAIN out :
       (\/ out[k].e = "ws.open"
        \/ (out[k].e = "ws.send" /\ out[k].a = OP_SELECT_PROTOCOL)) =>
          /\ conn[out[k].u].recvServer
          /\ conn[out[k].u].recvState
  /\ \A w \in Conns :
       ws[w].sock # "none" /\ conn[w].pc = "waitWS" =>
          conn[w].recvServer /\ conn[w].recvState
  /\ (\A i \in Conns : ~conn[i].recvServer /\ ~conn[i].recvState) =>
       \A ep \in Endpoints : ServerThenState(ep) = StateThenServer(ep)

\* C7 witness: the handler of the second event has just opened the socket
C7_OpenedOnSecondEvent ==
  /\ state = AUTHENTICATING
  /\ \E k \in Kinds(out, {"ws.open"}) :
       conn[out[k].u].recvServer /\ conn[out[k].u].recvState

\* C8: when an audio packet leaves, SPEAKING with speaking = 1 has gone out on
\* the voice gateway of the session before it.
C8_SpeakingBeforeAudio ==
  \A k \in Kinds(out, {"audio"}) : out[k].sp

C10_Code4009IffThreeMissed ==
  \A w \in Conns :
    (\E k \in Kinds(out, {"socket.close"}) :
        out[k].u = w /\ out[k].a = SESSION_TIMEOUT)
    <=> (\E k \in Kinds(out, {"tick"}) :
           out[k].u = w /\ out[k].a >= HeartbeatMissLimit)

\* C10 as amended: the heartbeat timer gives up, calling close(4009), exactly on
\* a tick that is the third in a row without a HEARTBEAT_ACK: the timer stops,
\* the socket is let go, and the close frame goes out if the socket was still
\* open and held; an ACK resets the count of missed ticks to zero.  Every
\* close with code 4009 comes from that tick or from the connection timeout.
C10_HeartbeatGivesUpOnThirdMiss ==
  /\ \A k \in Kinds(out, {"tick"}) :
       /\ out[k].a <= HeartbeatMissLimit
       /\ (out[k].a = HeartbeatMissLimit) <=>
            (\E j \in Kinds(out, {"heartbeat.timeout"}) : out[j].u = out[k].u)
  /\ \A j \in Kinds(out, {"heartbeat.timeout"}) :
       /\ \E k \in Kinds(out, {"tick"}) : k < j /\ out[k].u = out[j].u
       /\ ~ws[out[j].u].heartbeatInterval
       /\ ~ws[out[j].u].ref
  /\ \A k \in Kinds(out, {"socket.close"}) :
       out[k].a = SESSION_TIMEOUT =>
         \E j \in Kinds(out, {"heartbeat.timeout", "connect.timeout"}) :
            j < k /\ out[j].u = out[k].u
  /\ \A w \in Conns :
       ws[w].heartbeatInterval =>
         ws[w].heartbeatMissed = (IF ws[w].acked THEN 0 ELSE ws[w].unacked)

\* C10 witness: the third tick in a row without an ACK closed an open socket
\* with code 4009
C10_ClosedOnThirdMiss ==
  \E k \in Kinds(out, {"tick"}) :
    /\ out[k].a = HeartbeatMissLimit
    /\ \E j \in Kinds(out, {"socket.close"}) :
         j > k /\ out[j].u = out[k].u /\ out[j].a = SESSION_TIMEOUT

\* the voice gateway socket the supervisor holds has just reported its close
\* with one of the codes, the supervisor being in one of the states
ClosedWith(codes, states) ==
  { k \in Kinds(out, {"close"}) :
      out[k].a \in codes /\ out[k].st \in states /\ voiceWebSocket = out[k].u }

\* C11: when the voice gateway of a Ready supervisor has been closed with code
\* 4009 for three heartbeats without an ACK, the supervisor is in Reconnecting
\* once the close has been reported.
C11_HeartbeatLossReconnects ==
  ClosedWith({SESSION_TIMEOUT}, {READY}) # {} => state = RECONNECTING

\* C12: when the voice gateway closes with a fatal code (4004, 4006, 4014,
\* 4016) the supervisor goes to Disconnected and no retry is under way.
C12_FatalCloseDisconnects ==
  ClosedWith(FatalCodes, VoiceConnectionState \ {DESTROYED}) # {} =>
     /\ state = DISCONNECTED
     /\ backoff = 0
     /\ ~reconnectTimeout.held

\* the last handler was the callback of one of the supervisor's timers
TimerOf(timers) == out # <<>> /\ out[1].e = "timer" /\ out[1].p \in timers

\* C13: the reconnection that follows the teardown of a stale session (the end
\* of reconnect()'s backoff wait, the supervisor being in Reconnecting) opens a
\* voice gateway socket to resume the preserved session on and sends no op 4 on
\* the main gateway, the session id and token being preserved.
C13_StaleSessionResumes ==
  (TimerOf({"backoff"}) /\ out[1].st = RECONNECTING) =>
        /\ Kinds(out, {"op4"}) = {}
        /\ Kinds(out, {"ws.open"}) # {}
        /\ sessionId # 0 /\ token # 0

\* the last handler was reconnect(), called by the caller or by the retry timer
ReconnectRan == CallOf({"reconnect"}) \/ TimerOf({"retry"})

\* C14: reconnectAttempts counts the reconnection attempts started since the
\* last successful one and never exceeds maxReconnectAttempts: reconnect()
\* below the cap starts one attempt (Reconnecting, counter plus one, a backoff
\* wait), reconnect() at the cap starts none and destroys the supervisor, and
\* the counter goes down only to zero, when a connect() made by reconnect()
\* reaches Ready.
C14_ReconnectIsBounded ==
  /\ [](/\ reconnectAttempts \in 0..maxReconnectAttempts
        /\ (ReconnectRan /\ out[1].st # DESTROYED) =>
              IF out[1].b < maxReconnectAttempts
                THEN /\ reconnectAttempts = out[1].b + 1
                     /\ state = RECONNECTING
                     /\ backoff > 0
                ELSE /\ reconnectAttempts = out[1].b
                     /\ state = DESTROYED
                     /\ ~reconnectTimeout.held
                     /\ Kinds(out, {"error", "console.error"}) # {}
        /\ (ReconnectRan /\ out[1].st = DESTROYED) =>
              /\ reconnectAttempts = out[1].b
              /\ state = DESTROYED)
  /\ [][/\ reconnectAttempts' > reconnectAttempts =>
             /\ reconnectAttempts' = reconnectAttempts + 1
             /\ backoff' = backoff + 1
             /\ (CallOf({"reconnect"}) \/ TimerOf({"retry"}))'
        /\ reconnectAttempts' < reconnectAttempts =>
             /\ reconnectAttempts' = 0
             /\ state' = READY
             /\ Kinds(out', {"ready"}) # {}
        /\ backoff' > backoff => reconnectAttempts' = reconnectAttempts + 1]_vars

\* C14 witness: the retry timer after the fifth failed attempt found the
\* attempts exhausted and destroyed the supervisor
C14_ExhaustedThenDestroyed ==
  /\ TimerOf({"retry"})
  /\ out[1].b = maxReconnectAttempts
  /\ out[1].st # DESTROYED
  /\ state = DESTROYED

\* C15: when a VOICE_SERVER_UPDATE gives a Ready supervisor another endpoint
\* or token, the handler closes the voice gateway socket and the UDP socket it
\* holds and opens a voice gateway socket for the new endpoint and token.
C15_ServerMigrationRebuilds ==
  [][(/\ state = READY
      /\ voiceWebSocket # 0
      /\ endpoint # 0 /\ endpoint' # 0
      /\ token # 0 /\ token' # 0
      /\ <<token', endpoint'>> # <<token, endpoint>>) =>
        /\ Kinds(out', {"VoiceWebSocket.close"}) # {}
        /\ voiceUDP # 0 => Kinds(out', {"udp.close"}) # {}
        /\ Kinds(out', {"ws.open"}) # {}
        /\ voiceWebSocket' \notin {0, voiceWebSocket}
        /\ state' # READY]_vars

\* C16: after disconnect() has returned, the handler that runs next, unless it
\* is a call by the caller, is the continuation of nothing: it sends no op 4,
\* opens no socket and leaves the state Disconnected.
C16_DisconnectCancelsPending ==
  [][(/\ CallOf({"disconnect"})
      /\ out[1].st # DESTROYED
      /\ ~(out' # <<>> /\ out'[1].e = "call")) =>
        /\ state' = DISCONNECTED
        /\ Kinds(out', {"op4", "ws.open"}) = {}]_vars

\* C17: when connectUDP's transport set-up or IP discovery has failed, connect()
\* does not reach Ready and the failure goes to the caller or to the retry
\* policy.
C17_IpDiscoveryFailureFailsConnect ==
  (\E k \in Kinds(out, {"console.error"}) : out[k].p = "UDP connection failed") =>
     /\ Kinds(out, {"ready"}) = {}
     /\ state # READY
     /\ Kinds(out, {"error"}) # {} \/ reconnectTimeout.held

\* C18: when the 10 s wait for the voice info of a connect() in state
\* Connecting times out for the first time, the join (op 4) is sent again and
\* no failure reaches the caller.
C18_VoiceInfoTimeoutRetriesOnce ==
  (TimerOf({"voiceInfo"}) /\ out[1].st = CONNECTING) =>
     /\ \E k \in Kinds(out, {"op4"}) : out[k].p = "join"
     /\ Kinds(out, {"error"}) = {}
     /\ state = CONNECTING

\* voice gateway sockets that were created and not closed, by the client or
\* by the server; UDP sockets that were created and not closed
LiveWs == { w \in Conns : ws[w].sock \in {"connecting", "open"} }
LiveUdp == { u \in Conns : udp[u].made /\ ~udp[u].closed }

\* C19: at most one voice gateway socket and at most one UDP socket of the
\* supervisor are live at any time.
C19_AtMostOneSocketOfEachKind ==
  /\ Cardinality(LiveWs) <= 1
  /\ Cardinality(LiveUdp) <= 1

\* the modes selectEncryptionMode prefers
Preferred ==
  {XSALSA20_POLY1305_LITE, XSALSA20_POLY1305_SUFFIX, XSALSA20_POLY1305}

\* C20: the mode given to the new VoiceUDPSocket is lite if lite is offered,
\* else suffix if suffix is offered, else xsalsa20_poly1305 if that is offered,
\* else the first offered mode; for a non-empty offer it is one of the offer.
C20_SelectsBestOfferedMode ==
  [][\A i \in Conns :
       (conn[i].pc = "waitWS" /\ ws[i].ready /\ ~udp[i].made /\ udp'[i].made) =>
          LET offer == ws[i].modes
              offered == Range(offer)
              mode == udp'[i].encryptionMode
          IN /\ XSALSA20_POLY1305_LITE \in offered => mode = XSALSA20_POLY1305_LITE
             /\ (/\ XSALSA20_POLY1305_LITE \notin offered
                 /\ XSALSA20_POLY1305_SUFFIX \in offered) =>
                   mode = XSALSA20_POLY1305_SUFFIX
             /\ (/\ XSALSA20_POLY1305_LITE \notin offered
                 /\ XSALSA20_POLY1305_SUFFIX \notin offered
                 /\ XSALSA20_POLY1305 \in offered) => mode = XSALSA20_POLY1305
             /\ (offered \cap Preferred = {} /\ offer # <<>>) => mode = offer[1]
             /\ offer # <<>> => mode \in offered]_vars

\* C20 witness: no preferred mode was offered and the socket got the first
\* offered mode
C20_FellBackToFirstOffered ==
  \E u \in Conns :
    /\ udp[u].made
    /\ voiceUDP = u
    /\ udp[u].encryptionMode \in OfferedModes \ Preferred

\* C21: a packet sent in xsalsa20_poly1305_lite mode ends with the value the
\* nonce counter had when it was encrypted; the counter of a socket starts at 0
\* and is the number of lite packets the socket has sent (plus one per packet,
\* lite packets only).
C21_LitePacketCarriesNonce ==
  \A u \in Conns :
    udp[u].made /\ voiceUDP = u =>
      /\ udp[u].nonce = (IF udp[u].encryptionMode = XSALSA20_POLY1305_LITE
                           THEN udp[u].emitted ELSE 0)
      /\ \A k \in Kinds(out, {"audio"}) :
           (out[k].u = u /\ udp[u].encryptionMode = XSALSA20_POLY1305_LITE) =>
              out[k].t = <<udp[u].nonce - 1>>

\* C22 as claimed: resume() sends its payload with opcode 6, and the message
\* that is taken as HEARTBEAT_ACK (the count of missed heartbeats is cleared,
\* 'heartbeat_ack' is emitted) is the one with opcode 7.
C22_SpecOpcodeDictionary ==
  /\ CallOf({"resume"}) => \A k \in Kinds(out, {"ws.send"}) : out[k].a = 6
  /\ \A k \in Kinds(out, {"message"}) :
       (out[k].a = 7) <=>
          (\E j \in Kinds(out, {"heartbeat_ack"}) : j > k /\ out[j].u = out[k].u)

\* C22 as amended: resume() sends its payload with opcode 7, on an open socket
\* one message and nothing else; the message that is taken as HEARTBEAT_ACK is
\* the one with opcode 6 and no other: after it the count of missed heartbeats
\* is zero and the next tick finds the heartbeat acknowledged.
C22_CodeOpcodeDictionary ==
  /\ CallOf({"resume"}) =>
       /\ \A k \in Kinds(out, {"ws.send"}) : out[k].a = 7
       /\ Cardinality(Kinds(out, {"ws.send"})) <= 1
       /\ Kinds(out, {"call", "ws.send"}) = DOMAIN out
  /\ \A k \in Kinds(out, {"message"}) :
       /\ (out[k].a = 6) <=>
            (\E j \in Kinds(out, {"heartbeat_ack"}) : j > k /\ out[j].u = out[k].u)
       /\ (out[k].a = 6) =>
            /\ ws[out[k].u].heartbeatMissed = 0
            /\ ws[out[k].u].lastHeartbeatAck
            /\ ws[out[k].u].acked

\* C22 witness: a message with opcode 6 arrived after two heartbeats in a row
\* had gone unacknowledged, and cleared the count
C22_AckClearedMissedCount ==
  \E k \in Kinds(out, {"message"}) :
    /\ out[k].a = 6
    /\ ws[out[k].u].heartbeatInterval
    /\ ws[out[k].u].unacked = HeartbeatMissLimit - 1
    /\ ws[out[k].u].heartbeatMissed = 0

\* the frames the last handler of the player sent to connection c
FramesTo(o, c) == { j \in Kinds(o, {"sendAudioPacket"}) : o[j].u = c }

\* C23: a 20 ms tick in Playing either forwards one frame to every subscribed
\* connection, which resets missedFrames and leaves the player Playing, or,
\* the producer having no frame, sends nothing and counts a miss: the player
\* stays Playing with missedFrames one higher, and goes to Paused when that is
\* the maxMissedFrames-th miss in a row (and in no other tick).
C23_TickForwardsOrCountsMiss ==
  \A k \in Kinds(out, {"player.timer"}) :
    out[k].st = PLAYING =>
      IF out[k].b = 1
        THEN /\ \A c \in player.connections : Cardinality(FramesTo(out, c)) = 1
             /\ player.missedFrames = 0
             /\ player.status = PLAYING
        ELSE /\ Kinds(out, {"sendAudioPacket"}) = {}
             /\ IF out[k].a + 1 >= player.maxMissedFrames
                  THEN player.status = PAUSED
                  ELSE /\ player.status = PLAYING
                       /\ player.missedFrames = out[k].a + 1

\* C24: no handler sends a connection more than one frame (one per 20 ms
\* tick); when the player leaves Playing for Paused or Idle, each subscribed
\* connection has got its five silence frames by the time no timer of the
\* player is left to send any; a change of status that does not start from
\* Playing sends no silence frame.
C24_SilenceTailOnLeavingPlaying ==
  /\ [](\A c \in Subs : Cardinality(FramesTo(out, c)) <= 1)
  /\ [][/\ (player.status = PLAYING /\ player'.status \in {PAUSED, IDLE}) =>
             \A c \in player.connections :
                \/ player'.intervals > 0
                \/ Cardinality({ j \in FramesTo(out', c) : out'[j].p = SILENCE })
                     = StopSilenceFrames
        /\ (player.status # PLAYING /\ player'.status # player.status) =>
             Kinds(out', {"sendAudioPacket"}) = {}]_vars

\* the last handler was the caller's call of one of the player's methods
PlayerCallOf(methods) == out # <<>> /\ out[1].e = "player.call" /\ out[1].p \in methods

\* C25: with noSubscriber = pause the player is never Playing without a
\* subscribed connection; an unsubscribe() that takes the last connection from
\* a Playing player leaves it suspended (no timer running) with pause, Playing
\* with its timer running with play, and Idle with stop, the five silence
\* frames having gone to the connection that left.
C25_EmptySetFollowsBehavior ==
  /\ player.noSubscriber = "pause" =>
        ~(player.status = PLAYING /\ player.connections = {})
  /\ (/\ PlayerCallOf({"unsubscribe"})
      /\ out[1].st = PLAYING
      /\ player.connections = {}
      /\ Kinds(out, {"player.unsubscribe"}) # {}) =>
        CASE player.noSubscriber = "pause" ->
               player.status \in {PAUSED, AUTOPAUSED} /\ player.intervals = 0
          [] player.noSubscriber = "play" ->
               player.status = PLAYING /\ player.intervals > 0
          [] OTHER ->
               /\ player.status = IDLE
               /\ \A k \in Kinds(out, {"player.unsubscribe"}) :
                    Cardinality({ j \in FramesTo(out, out[k].u) : out[j].p = SILENCE })
                      = StopSilenceFrames

\* the last handler was that of a main gateway event whose guild_id or
\* user_id is not the supervisor's
ForeignEvent(o) == o # <<>> /\ o[1].e = "gateway" /\ (o[1].a = 0 \/ o[1].b = 0)

\* C26: a VOICE_STATE_UPDATE of another guild or user, and a
\* VOICE_SERVER_UPDATE of another guild, changes nothing: not the session id,
\* token or endpoint, not what any connect() has received so far, not the
\* state or the sockets, and no effect follows from it.
C26_ForeignEventsAreIgnored ==
  [][ForeignEvent(out') =>
        /\ sessionId' = sessionId
        /\ token' = token
        /\ endpoint' = endpoint
        /\ conn' = conn
        /\ state' = state
        /\ voiceWebSocket' = voiceWebSocket
        /\ ws' = ws
        /\ Len(out') = 1]_vars

\* C26 witness: a VOICE_STATE_UPDATE of another user arrived while a connect()
\* that has the server update waits for its state update, and it waits still
C26_IgnoredWhileWaitingForState ==
  /\ ForeignEvent(out)
  /\ out[1].p = "VOICE_STATE_UPDATE"
  /\ out[1].a = 1
  /\ sessionId # ForeignValue
  /\ \E i \in Conns :
       /\ conn[i].pc = "waitInfo"
       /\ conn[i].recvServer
       /\ ~conn[i].recvState

\* C27: when reconnect() has put the supervisor into Reconnecting, no voice
\* gateway socket and no UDP socket of it is live any more; and when a
\* connect() made by reconnect() opens a voice gateway socket, no other one is
\* live.
C27_ReconnectTearsDownFirst ==
  /\ (ReconnectRan /\ state = RECONNECTING) =>
        /\ LiveWs = {}
        /\ LiveUdp = {}
        /\ voiceWebSocket = 0
        /\ voiceUDP = 0
  /\ \A k \in Kinds(out, {"ws.open"}) :
        conn[out[k].u].viaReconnect => LiveWs \subseteq {out[k].u}

\* C28: the session id the supervisor holds is that of the session whose ssrc
\* and secret key it holds: the session its voice gateway socket was opened
\* for, once READY (ssrc) or SESSION_DESCRIPTION (secret key) has come on it.
C28_SessionTupleIsAtomic ==
  \A w \in Conns :
    (/\ voiceWebSocket = w
     /\ \/ ws[w].ready
        \/ voiceUDP # 0 /\ udp[voiceUDP].secretKey) =>
       sessionId = ws[w].sessionId

\* min(1 s * n, 5 s), in milliseconds
BackoffOf(n) == IF 1000 * n < 5000 THEN 1000 * n ELSE 5000

\* C29: the reconnect() that starts attempt n waits min(1 s * n, 5 s) and
\* sets no other timer, and a connect() of reconnect() that fails sets no
\* timer before the next attempt.
C29_BackoffIsTheOnlyDelay ==
  /\ (ReconnectRan /\ state = RECONNECTING) =>
        /\ reconnectAttempts \in 1..maxReconnectAttempts
        /\ \E k \in Kinds(out, {"setTimeout"}) :
             /\ out[k].p = "backoff"
             /\ out[k].a = BackoffOf(reconnectAttempts)
             /\ Kinds(out, {"setTimeout"}) = {k}
  /\ \A k \in Kinds(out, {"setTimeout"}) : out[k].p # "retry"

\* C30: once the state is Destroyed it stays Destroyed, whatever handler runs.
C30_DestroyedIsAbsorbing ==
  [][state = DESTROYED => state' = DESTROYED]_vars

\* C31: a reconnect() recovers the session by itself: the connect() it makes
\* when its backoff wait ends, the supervisor being in Reconnecting, is not
\* rejected but starts the handshake (Connecting, the join on the main
\* gateway, no retry timer), so that Ready is reached when every step of the
\* handshake succeeds.
C31_ReconnectReachesReady ==
  (TimerOf({"backoff"}) /\ out[1].st = RECONNECTING) =>
     /\ state = CONNECTING
     /\ \E k \in Kinds(out, {"op4"}) : out[k].p = "join"
     /\ Kinds(out, {"setTimeout"}) = {}

\* the last handler made a connect() fail: the rejection reached the caller
ConnectFailed ==
  \E k \in Kinds(out, {"error"}) :
     out[k].p \in {"Timeout waiting for voice server info",
                   "Voice WebSocket connection timeout",
                   "Missing voice connection info",
                   "Missing UDP connection info"}

\* C32: when a connect() has failed at a step of the handshake and left the
\* supervisor in Disconnected, the supervisor holds no VoiceWebSocket object
\* and no VoiceUDPSocket object, and no heartbeat timer of a voice gateway
\* socket is running.
C32_FailedConnectHoldsNothing ==
  (ConnectFailed /\ state = DISCONNECTED) =>
     /\ voiceWebSocket = 0
     /\ voiceUDP = 0
     /\ \A w \in Conns : ~ws[w].heartbeatInterval

\* the activations of connect() whose two listeners are registered on the main
\* gateway
Registered == { i \in Conns : conn[i].listeners }

\* C33: at most one pair of listeners (VOICE_SERVER_UPDATE, VOICE_STATE_UPDATE)
\* of the supervisor is registered on the main gateway, and none is once a
\* connect() has failed or disconnect() has returned.
C33_AtMostOnePairOfListeners ==
  /\ Cardinality(Registered) <= 1
  /\ (ConnectFailed \/ CallOf({"disconnect"})) => Registered = {}

\* C34: the supervisor's speaking flag is the value of the last SPEAKING that
\* went out on the voice gateway socket it holds, and false when none went out
\* on it or it holds none.
C34_SpeakingFlagMatchesGateway ==
  speaking = (voiceWebSocket # 0 /\ ws[voiceWebSocket].said)

\* C35: on every VoiceUDPSocket the cursor is that of the packets emitted so
\* far: sequence = emitted mod 2^16 and timestamp = 960 * emitted mod 2^32,
\* whatever calls of sendAudioPacket failed or were ignored in between.
C35_CursorCountsEmissions ==
  \A u \in Conns :
    udp[u].made =>
      /\ udp[u].sequence = udp[u].emitted % TwoPow16
      /\ udp[u].timestamp = (FrameStep * udp[u].emitted) % TwoPow32

\* C36: the mode selectEncryptionMode gave a VoiceUDPSocket for an offer of
\* known modes is one encryptPacket accepts: no sendAudioPacket on the socket
\* fails with an unsupported-mode error, and a call with the key set on a
\* socket that is not closed leaves a packet or fails for another reason.
C36_SelectedModeIsSupported ==
  /\ \A u \in Conns : udp[u].made => udp[u].encryptionMode \in Preferred
  /\ \A k \in Kinds(out, {"error"}) : out[k].p # "Unsupported encryption mode"

\* C37: the AudioPlayer has at most one 20 ms timer, and has one exactly when
\* its status is Playing.
C37_PacingTimerIffPlaying ==
  /\ player.intervals <= 1
  /\ (player.intervals = 1) <=> (player.status = PLAYING)

\* C38: reconnectAttempts is within 0..maxReconnectAttempts in every state,
\* also when the caller calls reconnect() while the backoff wait or the retry
\* timer of an earlier reconnect() is pending.
C38_AttemptsStayInRange ==
  /\ reconnectAttempts \in 0..maxReconnectAttempts
  /\ (CallOf({"reconnect"}) /\ out[1].b = maxReconnectAttempts) =>
        reconnectAttempts = maxReconnectAttempts

\* C38 witness: the caller's reconnect() started the last attempt allowed
\* while the backoff wait of an earlier reconnect() was still pending
C38_LastAttemptDuringBackoff ==
  /\ CallOf({"reconnect"})
  /\ out[1].b = maxReconnectAttempts - 1
  /\ reconnectAttempts = maxReconnectAttempts
  /\ state = RECONNECTING
  /\ backoff >= 2

\* close() has been called on VoiceWebSocket w: connect() had created its
\* socket, and the object no longer refers to it
CloseCalled(w) == ws[w].sock # "none" /\ ~ws[w].ref

\* C39: once close() has been called on a VoiceWebSocket, it has no heartbeat
\* timer and sends no HEARTBEAT, whatever the socket delivers afterwards and
\* whatever readyState it had at the call.
C39_NoHeartbeatAfterClose ==
  /\ \A w \in Conns : CloseCalled(w) => ~ws[w].heartbeatInterval
  /\ \A k \in Kinds(out, {"ws.send"}) :
        out[k].a = OP_HEARTBEAT => ~CloseCalled(out[k].u)

\* the gateway sockets that are CONNECTING or OPEN
LiveGatewaySockets ==
  { s \in Sockets : handler.socks[s].readyState \in {"connecting", "open"} }

\* C40: the WebSocketHandler has at most one heartbeat loop (one pending timer
\* of sendHeartbeat) and at most one gateway socket that is CONNECTING or OPEN,
\* at any time.
C40_OneHeartbeatLoopOneSocket ==
  /\ handler.heartbeats <= 1
  /\ Cardinality(LiveGatewaySockets) <= 1

====
